---- MODULE Spec2Model ----
(***************************************************************************)
(* Model of the AI suggestion backend (src/src/ai/ai-service.js and its    *)
(* collaborators).                                                         *)
(*                                                                         *)
(*   - Texts are sequences of one-character strings, so that trimming,     *)
(*     quote stripping and the lead-in regular expressions of              *)
(*     cleanSuggestion are computed character by character.                *)
(*   - Temperatures are integers in hundredths (0.7 is 70, the step 0.1 is *)
(*     10, the cap 1 is 100).                                              *)
(*   - An invocation of generateSuggestion / generateMultipleSuggestions   *)
(*     is a slot k with a program counter pc[k] that stops at each await   *)
(*     of the source; everything between two awaits is one atomic step,    *)
(*     as on the single-threaded JavaScript event loop.                    *)
(***************************************************************************)
EXTENDS Integers, Sequences, FiniteSets, TLC

\* ------------------------------------------------------------------ bounds

\* number of invocation slots
MaxInvocations == 2
\* largest count handed to generateMultipleSuggestions
MaxCount == 3
\* largest count handed to generateMultipleSuggestions by interleaved requests
MaxConcurrentCount == 2
\* largest number of fragments concatenated into a raw text (SpecClean)
MaxFragments == 3
\* the longest transcript that analyze is called on
MaxMessages == 2
\* the longest transcript that analyzeConversationFlow is called on
MaxFlowMessages == 22
\* the longest transcript that buildStructuredContext is called on
MaxContextMessages == 10
\* the largest number of fragments in a message given to analyzeExpectedResponse
MaxResponseWords == 3
\* the largest number given as count to POST /suggest-multiple
MaxRequestedCount == 7
\* the largest number of messages older than the last RetainedMessages
MaxOldMessages == 8
\* the largest number of messages in a transcript of formality contents
MaxFormalityMessages == 3

\* ------------------------------------------------------- program constants

\* Math.min(1, ...): the cap, in hundredths
MaxTemperature == 100
\* (i * 0.1): the step per attempt, in hundredths
TemperatureStep == 10
\* parseFloat(process.env.AI_TEMPERATURE) || 0.7, in hundredths
DefaultTemperature == 70
\* POST /suggest-multiple: the default and the limits of count
DefaultCount == 3
MinSuggestions == 1
MaxSuggestions == 5
\* "Si messages > 30 : analyse seulement les 25 derniers"
RetainedMessages == 25
TruncationThreshold == 30

Min(a, b) == IF a <= b THEN a ELSE b

\* ------------------------------------------------------------------- texts

\* the characters String.prototype.trim and \s treat as white space
\* (those that occur in the modelled texts)
IsWhitespace(c) == c \in {" ", "\n", "\t"}

\* case folding of the /i flag and of toLowerCase
Lower(c) ==
  CASE c = "A" -> "a" [] c = "B" -> "b" [] c = "C" -> "c" [] c = "D" -> "d"
    [] c = "E" -> "e" [] c = "F" -> "f" [] c = "G" -> "g" [] c = "H" -> "h"
    [] c = "I" -> "i" [] c = "J" -> "j" [] c = "K" -> "k" [] c = "L" -> "l"
    [] c = "M" -> "m" [] c = "N" -> "n" [] c = "O" -> "o" [] c = "P" -> "p"
    [] c = "Q" -> "q" [] c = "R" -> "r" [] c = "S" -> "s" [] c = "T" -> "t"
    [] c = "U" -> "u" [] c = "V" -> "v" [] c = "W" -> "w" [] c = "X" -> "x"
    [] c = "Y" -> "y" [] c = "Z" -> "z" [] c = "&Eacute;" -> "&eacute;"
    [] c = "&Egrave;" -> "&egrave;" [] c = "&Agrave;" -> "&agrave;" [] c = "&Ccedil;" -> "&ccedil;"
    [] OTHER -> c

\* first index >= p of s that is not white space (Len(s)+1 when none): \s*
RECURSIVE SkipWhitespace(_, _)
SkipWhitespace(s, p) ==
  IF p > Len(s) THEN Len(s) + 1
  ELSE IF IsWhitespace(s[p]) THEN SkipWhitespace(s, p + 1)
  ELSE p

\* last index <= p of s that is not white space (0 when none)
RECURSIVE SkipWhitespaceBack(_, _)
SkipWhitespaceBack(s, p) ==
  IF p < 1 THEN 0
  ELSE IF IsWhitespace(s[p]) THEN SkipWhitespaceBack(s, p - 1)
  ELSE p

\* String.prototype.trim
Trim(s) == SubSeq(s, SkipWhitespace(s, 1), SkipWhitespaceBack(s, Len(s)))

IsQuote(c) == c \in {"\"", "'"}

\* (variant: the pattern without its second alternative)
StripLeadingQuote(s) ==
  IF Len(s) > 0 /\ IsQuote(s[1]) THEN SubSeq(s, 2, Len(s)) ELSE s
\* cleaned.replace(/^["']|["']$/g, ''): one quotation mark at the start and,
\* scanning on from there, one at the very end
StripQuotes(s) ==
  LET rest == IF Len(s) > 0 /\ IsQuote(s[1]) THEN SubSeq(s, 2, Len(s)) ELSE s
  IN  IF Len(rest) > 0 /\ IsQuote(rest[Len(rest)])
      THEN SubSeq(rest, 1, Len(rest) - 1)
      ELSE rest

\* the phrases of prefixesToRemove, in the order of the array
prefixesToRemove ==
  << <<"V","o","i","c","i"," ","m","a"," ","s","u","g","g","e","s","t","i","o","n">>,
     <<"S","u","g","g","e","s","t","i","o","n">>,
     <<"R","e","p","o","n","s","e">>,
     <<"M","e","s","s","a","g","e">>,
     <<"V","e","r","s","i","o","n"," ","a","m","e","l","i","o","r","e","e">> >>

\* length of the match of /^phrase\s*:\s*/i at the start of s, 0 when it does
\* not match
MatchLeadIn(s, phrase) ==
  LET n     == Len(phrase)
      head  == /\ Len(s) >= n
               /\ \A j \in 1..n : Lower(s[j]) = Lower(phrase[j])
      colon == SkipWhitespace(s, n + 1)
  IN  IF head /\ colon <= Len(s) /\ s[colon] = ":"
      THEN SkipWhitespace(s, colon + 1) - 1
      ELSE 0

\* cleaned.replace(prefix, '') for one prefix
RemoveLeadIn(s, phrase) == SubSeq(s, MatchLeadIn(s, phrase) + 1, Len(s))

\* for (const prefix of prefixesToRemove) cleaned = cleaned.replace(prefix, '')
RECURSIVE RemovePrefixes(_, _)
RemovePrefixes(s, idx) ==
  IF idx > Len(prefixesToRemove) THEN s
  ELSE RemovePrefixes(RemoveLeadIn(s, prefixesToRemove[idx]), idx + 1)

\* AIService.cleanSuggestion
cleanSuggestion(suggestion) ==
  IF suggestion = <<>> THEN <<>>
  ELSE Trim(RemovePrefixes(StripQuotes(suggestion), 1))

\* ------------------------------------------------------------ orchestrator

VARIABLES
  temperature,    \* config.ai.temperature, shared by every invocation
  isInitialized,  \* AIService.isInitialized (groq is non-null exactly then)
  pc,             \* pc[k]: where invocation k stands
  kind,           \* "single": generateSuggestion, "multiple": generateMultipleSuggestions
  currentInput,   \* params.currentInput of invocation k
  count,          \* the count argument of generateMultipleSuggestions
  i,              \* the loop variable of generateMultipleSuggestions
  originalTemp,   \* const originalTemp of the current loop iteration
  suggestions,    \* const suggestions = [] and its pushes
  settled,        \* how the awaited generateSuggestion promise settled
  requests,       \* the groq.chat.completions.create calls issued by k
  attempts,       \* the outcome of each generateSuggestion call made by k
  result,         \* the value k returned
  resultMode,     \* the mode field of the value a generateSuggestion returned
  thrown,         \* the error k raised
  startTemp,      \* config.ai.temperature when k was called
  cleanInput,     \* the argument of a direct cleanSuggestion call
  cleaned,        \* its return value
  cleanPc,        \* "ready" before the direct call, "done" after
  cleanBody,      \* the text that was wrapped into cleanInput (SpecWrapped)
  messages,       \* the messages argument of a direct analyzer call
  analysis,       \* the ConversationAnalysis that analyze returned
  analyzerPc,     \* "ready" before the direct call, "done" after
  context,        \* the lines that buildStructuredContext returned
  expectedResponse, \* the type that analyzeExpectedResponse returned
  builderPc,      \* "ready" before a direct prompt builder call, "done" after
  requestCount,   \* req.body.count of a POST /suggest-multiple request
  routePc         \* where the handler of that request stands

orchestratorVars ==
  << temperature, isInitialized, pc, kind, currentInput, count, i, originalTemp,
     suggestions, settled, requests, attempts, result, resultMode, thrown,
     startTemp >>
cleanVars == << cleanInput, cleaned, cleanPc, cleanBody >>
analyzerVars == << messages, analysis, analyzerPc >>
builderVars == << context, expectedResponse, builderPc >>
routeVars == << requestCount, routePc >>
vars == << orchestratorVars, cleanVars, analyzerVars, builderVars, routeVars >>

Invocations == 1..MaxInvocations

\* params.currentInput: absent, or a string
NoInput == [present |-> FALSE, text |-> <<>>]
Drafts ==
  { NoInput,
    [present |-> TRUE, text |-> <<>>],
    [present |-> TRUE, text |-> <<" ", "\n">>],
    [present |-> TRUE, text |-> <<" ", "o", "k", " ">>] }

\* completion.choices[0].message.content as the provider may return it
RawOutputs ==
  { <<"O", "k">>,
    <<"\"", "O", "k", "\"", "\n">>,
    <<"M", "e", "s", "s", "a", "g", "e", ":", " ", "Y", "o">> }

\* errors groq.chat.completions.create may reject with
ProviderErrors == { "RateLimited", "ConnectionError" }
\* new Error('Service IA non disponible - Verifiez la configuration')
ServiceUnavailable == "ServiceUnavailable"

\* AIService.isAvailable
isAvailable == isInitialized

\* (variant: the draft tested without trim)
ModeNoTrim(d) == IF d.present /\ d.text # <<>> THEN "improve" ELSE "suggest"
\* const mode = currentInput?.trim() ? 'improve' : 'suggest'
Mode(d) == IF d.present /\ Trim(d.text) # <<>> THEN "improve" ELSE "suggest"

\* PromptBuilder.buildSystemPrompt: which mission block the prompt carries
buildSystemPrompt(mode) ==
  IF mode = "suggest" THEN "SuggestMission" ELSE "ImproveMission"

\* PromptBuilder.buildUserPrompt: which user prompt is built
buildUserPrompt(mode) ==
  IF mode = "suggest" THEN "SuggestUserPrompt" ELSE "ImproveUserPrompt"

\* the argument of this.groq.chat.completions.create, with the index of the
\* attempt that issued it
Request(attempt, temp, d) ==
  [ attempt     |-> attempt,
    temperature |-> temp,
    system      |-> buildSystemPrompt(Mode(d)),
    user        |-> buildUserPrompt(Mode(d)) ]

NotSettled == [ok |-> FALSE, suggestion |-> <<>>, error |-> "none"]
Fulfilled(text) == [ok |-> TRUE, suggestion |-> text, error |-> "none"]
Rejected(e) == [ok |-> FALSE, suggestion |-> <<>>, error |-> e]

Succeeded(raw) == [ok |-> TRUE, raw |-> raw, error |-> "none"]
Failed(e) == [ok |-> FALSE, raw |-> <<>>, error |-> e]

\* (variant: the array returned as it is, without the Set)
NoDedup(s) == s
\* (variant: each distinct element at the place of its last occurrence)
RECURSIVE DedupKeepLast(_)
DedupKeepLast(s) ==
  IF s = <<>> THEN <<>>
  ELSE IF \E j \in 2..Len(s) : s[j] = s[1]
       THEN DedupKeepLast(Tail(s))
       ELSE <<s[1]>> \o DedupKeepLast(Tail(s))
\* a Set keeps its elements in order of first insertion: the elements of s not
\* in seen, each once, at the place of its first occurrence
RECURSIVE DedupFrom(_, _)
DedupFrom(s, seen) ==
  IF s = <<>> THEN <<>>
  ELSE IF s[1] \in seen
       THEN DedupFrom(Tail(s), seen)
       ELSE <<s[1]>> \o DedupFrom(Tail(s), seen \cup {s[1]})
\* [...new Set(suggestions)]
Dedup(s) == DedupFrom(s, {})

\* analysis before analyze has returned
NoAnalysis == [returned |-> FALSE]

\* no direct prompt builder call is made
BuilderIdle ==
  /\ context = <<>>
  /\ expectedResponse = "none"
  /\ builderPc = "idle"

\* an absent property of a request body
Undefined == [type |-> "undefined"]

\* no POST /suggest-multiple request is served
RouteIdle ==
  /\ requestCount = Undefined
  /\ routePc = "idle"

\* no direct analyzer call is made
AnalyzerIdle ==
  /\ messages = <<>>
  /\ analysis = NoAnalysis
  /\ analyzerPc = "idle"

Init ==
  /\ temperature \in {DefaultTemperature, 90}
  /\ isInitialized \in BOOLEAN
  /\ pc = [k \in Invocations |-> "idle"]
  /\ kind = [k \in Invocations |-> "none"]
  /\ currentInput = [k \in Invocations |-> NoInput]
  /\ count = [k \in Invocations |-> 0]
  /\ i = [k \in Invocations |-> 0]
  /\ originalTemp = [k \in Invocations |-> 0]
  /\ suggestions = [k \in Invocations |-> <<>>]
  /\ settled = [k \in Invocations |-> NotSettled]
  /\ requests = [k \in Invocations |-> <<>>]
  /\ attempts = [k \in Invocations |-> <<>>]
  /\ result = [k \in Invocations |-> <<>>]
  /\ resultMode = [k \in Invocations |-> "none"]
  /\ thrown = [k \in Invocations |-> "none"]
  /\ startTemp = [k \in Invocations |-> 0]
  /\ cleanInput = <<>>
  /\ cleaned = <<>>
  /\ cleanPc = "idle"
  /\ cleanBody = <<>>
  /\ AnalyzerIdle
  /\ BuilderIdle
  /\ RouteIdle

\* generateSuggestion called directly (POST /suggest): lines 58-100, up to the
\* await of the provider call, or the throw of line 60
StartSuggestion(k, d) ==
  /\ pc[k] = "idle"
  /\ kind' = [kind EXCEPT ![k] = "single"]
  /\ currentInput' = [currentInput EXCEPT ![k] = d]
  /\ startTemp' = [startTemp EXCEPT ![k] = temperature]
  /\ IF isAvailable
     THEN /\ requests' = [requests EXCEPT ![k] = Append(@, Request(0, temperature, d))]
          /\ pc' = [pc EXCEPT ![k] = "awaitCreate"]
          /\ UNCHANGED << attempts, thrown >>
     ELSE /\ attempts' = [attempts EXCEPT ![k] = Append(@, Failed(ServiceUnavailable))]
          /\ thrown' = [thrown EXCEPT ![k] = ServiceUnavailable]
          /\ pc' = [pc EXCEPT ![k] = "raised"]
          /\ UNCHANGED requests
  /\ UNCHANGED << temperature, isInitialized, count, i, originalTemp, suggestions,
                  settled, result, resultMode, cleanVars, analyzerVars, builderVars, routeVars >>

\* (variant: the request of the next attempt is issued together with this one)
AttemptFanOut(k, d, c, idx, sugg, temp) ==
  /\ i' = [i EXCEPT ![k] = idx]
  /\ suggestions' = [suggestions EXCEPT ![k] = sugg]
  /\ IF idx < c
     THEN LET varied == Min(MaxTemperature, temp + idx * TemperatureStep)
          IN  /\ originalTemp' = [originalTemp EXCEPT ![k] = temp]
              /\ temperature' = varied
              /\ pc' = [pc EXCEPT ![k] = IF isAvailable THEN "awaitCreate"
                                                        ELSE "awaitSuggestion"]
              /\ IF isAvailable
                 THEN /\ requests' = [requests EXCEPT
                                       ![k] = IF idx + 1 < c
                                                THEN @ \o << Request(idx, varied, d),
                                                              Request(idx + 1, varied, d) >>
                                                ELSE Append(@, Request(idx, varied, d))]
                      /\ settled' = [settled EXCEPT ![k] = NotSettled]
                      /\ UNCHANGED attempts
                 ELSE /\ settled' = [settled EXCEPT ![k] = Rejected(ServiceUnavailable)]
                      /\ attempts' = [attempts EXCEPT
                                       ![k] = Append(@, Failed(ServiceUnavailable))]
                      /\ UNCHANGED requests
              /\ UNCHANGED result
     ELSE /\ temperature' = temp
          /\ pc' = [pc EXCEPT ![k] = "returned"]
          /\ result' = [result EXCEPT ![k] = Dedup(sugg)]
          /\ settled' = [settled EXCEPT ![k] = NotSettled]
          /\ UNCHANGED << originalTemp, requests, attempts >>
\* generateMultipleSuggestions from the loop test `i < count` (with i = idx,
\* suggestions = sugg and config.ai.temperature = temp) to the next await of
\* line 175, or to the return of line 185
Attempt(k, d, c, idx, sugg, temp) ==
  /\ i' = [i EXCEPT ![k] = idx]
  /\ suggestions' = [suggestions EXCEPT ![k] = sugg]
  /\ IF idx < c
     THEN LET varied == Min(MaxTemperature, temp + idx * TemperatureStep)
          IN  /\ originalTemp' = [originalTemp EXCEPT ![k] = temp]
              /\ temperature' = varied
              /\ pc' = [pc EXCEPT ![k] = IF isAvailable THEN "awaitCreate"
                                                        ELSE "awaitSuggestion"]
              /\ IF isAvailable
                 THEN /\ requests' = [requests EXCEPT
                                       ![k] = Append(@, Request(idx, varied, d))]
                      /\ settled' = [settled EXCEPT ![k] = NotSettled]
                      /\ UNCHANGED attempts
                 ELSE /\ settled' = [settled EXCEPT ![k] = Rejected(ServiceUnavailable)]
                      /\ attempts' = [attempts EXCEPT
                                       ![k] = Append(@, Failed(ServiceUnavailable))]
                      /\ UNCHANGED requests
              /\ UNCHANGED result
     ELSE /\ temperature' = temp
          /\ pc' = [pc EXCEPT ![k] = "returned"]
          /\ result' = [result EXCEPT ![k] = Dedup(sugg)]
          /\ settled' = [settled EXCEPT ![k] = NotSettled]
          /\ UNCHANGED << originalTemp, requests, attempts >>

\* generateMultipleSuggestions called: lines 166-175, up to the first await
StartMultiple(k, d, c) ==
  /\ pc[k] = "idle"
  /\ kind' = [kind EXCEPT ![k] = "multiple"]
  /\ currentInput' = [currentInput EXCEPT ![k] = d]
  /\ count' = [count EXCEPT ![k] = c]
  /\ startTemp' = [startTemp EXCEPT ![k] = temperature]
  /\ Attempt(k, d, c, 0, <<>>, temperature)
  /\ UNCHANGED << isInitialized, resultMode, thrown, cleanVars, analyzerVars, builderVars >>

\* the provider call resolves: generateSuggestion lines 102-123
ProviderResolve(k, raw) ==
  /\ pc[k] = "awaitCreate"
  /\ attempts' = [attempts EXCEPT ![k] = Append(@, Succeeded(raw))]
  /\ LET suggestion == Trim(raw)
         cleanedSuggestion == cleanSuggestion(suggestion)
     IN  IF kind[k] = "single"
         THEN /\ pc' = [pc EXCEPT ![k] = "returned"]
              /\ result' = [result EXCEPT ![k] = <<cleanedSuggestion>>]
              /\ resultMode' = [resultMode EXCEPT ![k] = Mode(currentInput[k])]
              /\ UNCHANGED settled
         ELSE /\ pc' = [pc EXCEPT ![k] = "awaitSuggestion"]
              /\ settled' = [settled EXCEPT ![k] = Fulfilled(cleanedSuggestion)]
              /\ UNCHANGED << result, resultMode >>
  /\ UNCHANGED << temperature, isInitialized, kind, currentInput, count, i,
                  originalTemp, suggestions, requests, thrown, startTemp, cleanVars, analyzerVars, builderVars, routeVars >>

\* (variant: the rejected provider call is issued again)
ProviderRejectRetry(k, e) ==
  /\ pc[k] = "awaitCreate"
  /\ requests' = [requests EXCEPT
                   ![k] = Append(@, Request(i[k], temperature, currentInput[k]))]
  /\ UNCHANGED << temperature, isInitialized, pc, kind, currentInput, count, i,
                  originalTemp, suggestions, settled, attempts, result, resultMode,
                  thrown, startTemp, cleanVars, analyzerVars, builderVars, routeVars >>
\* the provider call rejects: generateSuggestion lines 124-130 (log, rethrow)
ProviderReject(k, e) ==
  /\ pc[k] = "awaitCreate"
  /\ attempts' = [attempts EXCEPT ![k] = Append(@, Failed(e))]
  /\ IF kind[k] = "single"
     THEN /\ pc' = [pc EXCEPT ![k] = "raised"]
          /\ thrown' = [thrown EXCEPT ![k] = e]
          /\ UNCHANGED settled
     ELSE /\ pc' = [pc EXCEPT ![k] = "awaitSuggestion"]
          /\ settled' = [settled EXCEPT ![k] = Rejected(e)]
          /\ UNCHANGED thrown
  /\ UNCHANGED << temperature, isInitialized, kind, currentInput, count, i,
                  originalTemp, suggestions, requests, result, resultMode,
                  startTemp, cleanVars, analyzerVars, builderVars, routeVars >>

\* generateMultipleSuggestions resumes with a result: lines 176-178 (push,
\* restore the temperature), i++, and the loop again
ResumePush(k) ==
  /\ pc[k] = "awaitSuggestion"
  /\ settled[k].ok
  /\ Attempt(k, currentInput[k], count[k], i[k] + 1,
             Append(suggestions[k], settled[k].suggestion), originalTemp[k])
  /\ UNCHANGED << isInitialized, kind, currentInput, count, resultMode, thrown,
                  startTemp, cleanVars, analyzerVars, builderVars, routeVars >>

\* (variant: the catch rethrows)
ResumeCatchRethrow(k) ==
  /\ pc[k] = "awaitSuggestion"
  /\ ~settled[k].ok
  /\ pc' = [pc EXCEPT ![k] = "raised"]
  /\ thrown' = [thrown EXCEPT ![k] = settled[k].error]
  /\ UNCHANGED << temperature, isInitialized, kind, currentInput, count, i,
                  originalTemp, suggestions, settled, requests, attempts, result,
                  resultMode, startTemp, cleanVars, analyzerVars, builderVars, routeVars >>
\* generateMultipleSuggestions resumes with an error: the catch of lines
\* 179-181 (a warning, nothing else), i++, and the loop again
ResumeCatch(k) ==
  /\ pc[k] = "awaitSuggestion"
  /\ ~settled[k].ok
  /\ Attempt(k, currentInput[k], count[k], i[k] + 1, suggestions[k], temperature)
  /\ UNCHANGED << isInitialized, kind, currentInput, count, resultMode, thrown,
                  startTemp, cleanVars, analyzerVars, builderVars, routeVars >>

\* the caller has consumed the outcome of invocation k: the slot serves the
\* next request
Release(k) ==
  /\ pc[k] \in {"returned", "raised"}
  /\ pc' = [pc EXCEPT ![k] = "idle"]
  /\ kind' = [kind EXCEPT ![k] = "none"]
  /\ currentInput' = [currentInput EXCEPT ![k] = NoInput]
  /\ count' = [count EXCEPT ![k] = 0]
  /\ i' = [i EXCEPT ![k] = 0]
  /\ originalTemp' = [originalTemp EXCEPT ![k] = 0]
  /\ suggestions' = [suggestions EXCEPT ![k] = <<>>]
  /\ settled' = [settled EXCEPT ![k] = NotSettled]
  /\ requests' = [requests EXCEPT ![k] = <<>>]
  /\ attempts' = [attempts EXCEPT ![k] = <<>>]
  /\ result' = [result EXCEPT ![k] = <<>>]
  /\ resultMode' = [resultMode EXCEPT ![k] = "none"]
  /\ thrown' = [thrown EXCEPT ![k] = "none"]
  /\ startTemp' = [startTemp EXCEPT ![k] = 0]
  /\ UNCHANGED << temperature, isInitialized, cleanVars, analyzerVars, builderVars, routeVars >>

\* no invocation has been called and not yet consumed
NoneInFlight == \A k \in Invocations : pc[k] = "idle"

\* generateSuggestion / generateMultipleSuggestions called while no other
\* invocation is in flight
SoleSuggestion(k, d) == NoneInFlight /\ StartSuggestion(k, d)
SoleMultiple(k, d, c) ==
  NoneInFlight /\ StartMultiple(k, d, c) /\ UNCHANGED routeVars

\* One invocation at a time, with every input.
Next ==
  \E k \in Invocations :
    \/ \E d \in Drafts : SoleSuggestion(k, d)
    \/ \E d \in Drafts : \E c \in 0..MaxCount : SoleMultiple(k, d, c)
    \/ \E raw \in RawOutputs : ProviderResolve(k, raw)
    \/ \E e \in ProviderErrors : ProviderReject(k, e)
    \/ ResumePush(k)
    \/ ResumeCatch(k)
    \/ Release(k)

Spec == Init /\ [][Next]_vars

\* Invocations of several requests interleaved at their awaits; each slot
\* serves one invocation, with one draft, one provider text and one error.
\* A request handler and a provider response are tasks of the event loop: one
\* runs only when the continuations queued by the previous task (the resumption
\* of a generateMultipleSuggestions whose generateSuggestion has settled) have
\* run.
MicrotasksDrained == \A j \in Invocations : pc[j] # "awaitSuggestion"

RequestSuggestion(k) == MicrotasksDrained /\ StartSuggestion(k, NoInput)
RequestMultiple(k, c) ==
  MicrotasksDrained /\ StartMultiple(k, NoInput, c) /\ UNCHANGED routeVars
ResponseResolve(k) == MicrotasksDrained /\ ProviderResolve(k, <<"O", "k">>)
ResponseReject(k) == MicrotasksDrained /\ ProviderReject(k, "ConnectionError")

NextConcurrent ==
  \E k \in Invocations :
    \/ RequestSuggestion(k)
    \/ \E c \in 0..MaxConcurrentCount : RequestMultiple(k, c)
    \/ ResponseResolve(k)
    \/ ResponseReject(k)
    \/ ResumePush(k)
    \/ ResumeCatch(k)

InitConcurrent == Init /\ temperature = DefaultTemperature

SpecConcurrent == InitConcurrent /\ [][NextConcurrent]_vars

\* --------------------------------------------------- cleanSuggestion alone

\* pieces a raw provider output is made of
Fragments ==
  { <<"\"">>, <<"'">>, <<" ">>, <<"H", "i", "!">>,
    <<"S", "u", "g", "g", "e", "s", "t", "i", "o", "n", ":", " ">>,
    <<"s", "U", "G", "G", "E", "S", "T", "I", "O", "N", " ", ":">>,
    <<"V", "o", "i", "c", "i", " ", "m", "a", " ", "s", "u", "g", "g", "e", "s", "t", "i", "o", "n", ":">>,
    <<"R", "e", "p", "o", "n", "s", "e", ":">>,
    <<"M", "e", "s", "s", "a", "g", "e", ":", "\n">>,
    <<"V", "e", "r", "s", "i", "o", "n", " ", "a", "m", "e", "l", "i", "o", "r", "e", "e", ":">> }

\* the texts made of at most n fragments
RECURSIVE Texts(_)
Texts(n) ==
  IF n = 0 THEN { <<>> }
  ELSE LET shorter == Texts(n - 1)
       IN  shorter \cup { t \o f : t \in shorter, f \in Fragments }

\* the orchestrator as constructed, with no invocation
OrchestratorIdle ==
  /\ temperature = DefaultTemperature
  /\ isInitialized = TRUE
  /\ pc = [k \in Invocations |-> "idle"]
  /\ kind = [k \in Invocations |-> "none"]
  /\ currentInput = [k \in Invocations |-> NoInput]
  /\ count = [k \in Invocations |-> 0]
  /\ i = [k \in Invocations |-> 0]
  /\ originalTemp = [k \in Invocations |-> 0]
  /\ suggestions = [k \in Invocations |-> <<>>]
  /\ settled = [k \in Invocations |-> NotSettled]
  /\ requests = [k \in Invocations |-> <<>>]
  /\ attempts = [k \in Invocations |-> <<>>]
  /\ result = [k \in Invocations |-> <<>>]
  /\ resultMode = [k \in Invocations |-> "none"]
  /\ thrown = [k \in Invocations |-> "none"]
  /\ startTemp = [k \in Invocations |-> 0]

InitClean ==
  /\ OrchestratorIdle
  /\ RouteIdle
  /\ AnalyzerIdle
  /\ BuilderIdle
  /\ cleanBody = <<>>
  /\ cleanInput \in Texts(MaxFragments)
  /\ cleaned = <<>>
  /\ cleanPc = "ready"

\* cleanSuggestion(cleanInput) called and returned
CleanSuggestion ==
  /\ cleanPc = "ready"
  /\ cleaned' = cleanSuggestion(cleanInput)
  /\ cleanPc' = "done"
  /\ UNCHANGED << cleanInput, cleanBody, orchestratorVars, analyzerVars, builderVars, routeVars >>

NextClean == CleanSuggestion

SpecClean == InitClean /\ [][NextClean]_vars

\* a body text has no quotation mark at either end, no lead-in at its start
\* and no white space around it
IsPlainBody(t) ==
  /\ t # <<>> => ~IsQuote(t[1]) /\ ~IsQuote(t[Len(t)])
  /\ \A p \in 1..Len(prefixesToRemove) : MatchLeadIn(t, prefixesToRemove[p]) = 0
  /\ Trim(t) = t

\* quote + lead-in phrase + ":" + sep + body + quote
Wrapped(quote, phrase, sep, t) ==
  <<quote>> \o phrase \o <<":">> \o sep \o t \o <<quote>>

\* cleanSuggestion is called on a plain body wrapped in one pair of quotation
\* marks behind one lead-in phrase
InitWrapped ==
  /\ OrchestratorIdle
  /\ RouteIdle
  /\ AnalyzerIdle
  /\ BuilderIdle
  /\ cleanBody \in { t \in Texts(MaxFragments) : IsPlainBody(t) }
  /\ \E quote \in {"\"", "'"} :
       \E p \in 1..Len(prefixesToRemove) :
         \E sep \in { <<>>, <<" ">> } :
           cleanInput = Wrapped(quote, prefixesToRemove[p], sep, cleanBody)
  /\ cleaned = <<>>
  /\ cleanPc = "ready"

SpecWrapped == InitWrapped /\ [][NextClean]_vars

\* ---------------------------------------------------- conversation analyzer
\* Texts are sequences of characters. A letter with a diacritic is one
\* character, written as its entity name ("&eacute;", "&egrave;"); an emoji
\* is one character, written as its short name between colons.

\* \w of a regular expression: ASCII letters, digits and "_" only, so a
\* letter with a diacritic is not a word character
WordChars ==
  { "a", "b", "c", "d", "e", "f", "g", "h", "i", "j", "k", "l", "m",
    "n", "o", "p", "q", "r", "s", "t", "u", "v", "w", "x", "y", "z",
    "A", "B", "C", "D", "E", "F", "G", "H", "I", "J", "K", "L", "M",
    "N", "O", "P", "Q", "R", "S", "T", "U", "V", "W", "X", "Y", "Z",
    "0", "1", "2", "3", "4", "5", "6", "7", "8", "9", "_" }

IsWordChar(c) == c \in WordChars

\* \b just before position p of s: exactly one of s[p-1], s[p] is a word
\* character
IsWordBoundary(s, p) ==
  (p > 1 /\ IsWordChar(s[p - 1])) # (p <= Len(s) /\ IsWordChar(s[p]))

\* String.prototype.toLowerCase
toLowerCase(s) == [p \in 1..Len(s) |-> Lower(s[p])]

\* the positions of s at which \b holds: a match of a pattern that begins
\* with \b starts at one of them
WordBoundaries(s) == { p \in 1..(Len(s) + 1) : IsWordBoundary(s, p) }

\* w occurs in s at position p
OccursAt(s, w, p) ==
  /\ p + Len(w) - 1 <= Len(s)
  /\ \A k \in 1..Len(w) : s[p + k - 1] = w[k]

\* String.prototype.includes
includes(s, w) == \E p \in 1..(Len(s) + 1) : OccursAt(s, w, p)

\* the smallest element of a non-empty set of numbers
Minimum(S) == CHOOSE q \in S : \A r \in S : q <= r

\* (s.match(new RegExp(w, 'g')) || []).length: the matches of a literal
\* pattern, found left to right, each search resuming after the last match
RECURSIVE CountMatchesFrom(_, _, _)
CountMatchesFrom(s, w, p) ==
  LET later == { q \in p..Len(s) : OccursAt(s, w, q) } IN
  IF later = {} THEN 0
  ELSE 1 + CountMatchesFrom(s, w, Minimum(later) + Len(w))

CountMatches(s, w) == CountMatchesFrom(s, w, 1)

\* new RegExp(`\\b${word}\\b`, 'gi') matches s at position p: the letters of
\* the word in either case (the dictionaries are in lower case) between two
\* word boundaries
WordOccursAt(s, w, p) ==
  /\ p + Len(w) - 1 <= Len(s)
  /\ IsWordBoundary(s, p)
  /\ IsWordBoundary(s, p + Len(w))
  /\ \A k \in 1..Len(w) : Lower(s[p + k - 1]) = w[k]

\* (s.match(new RegExp(`\\b${word}\\b`, 'gi')) || []).length
\* the matches from position p on, looked for at the given word boundaries
RECURSIVE CountWordFrom(_, _, _, _)
CountWordFrom(s, w, p, boundaries) ==
  LET later == { q \in boundaries : q >= p /\ WordOccursAt(s, w, q) } IN
  IF later = {} THEN 0
  ELSE 1 + CountWordFrom(s, w, Minimum(later) + Len(w), boundaries)

CountWord(s, w) == CountWordFrom(s, w, 1, WordBoundaries(s))

\* static FORMAL_INDICATORS
FORMAL_INDICATORS ==
  << <<"b", "o", "n", "j", "o", "u", "r">>,
     <<"b", "o", "n", "s", "o", "i", "r">>,
     <<"m", "e", "r", "c", "i">>,
     <<"c", "o", "r", "d", "i", "a", "l", "e", "m", "e", "n", "t">>,
     <<"s", "i", "n", "c", "&egrave;", "r", "e", "m", "e", "n", "t">>,
     <<"p", "o", "u", "r", "r", "i", "e", "z">>,
     <<"v", "e", "u", "i", "l", "l", "e", "z">>,
     <<"j", "e", " ", "v", "o", "u", "s", " ", "p", "r", "i", "e">>,
     <<"p", "e", "r", "m", "e", "t", "t", "e", "z">>,
     <<"m", "o", "n", "s", "i", "e", "u", "r">>,
     <<"m", "a", "d", "a", "m", "e">>,
     <<"r", "e", "s", "p", "e", "c", "t", "u", "e", "u", "s", "e", "m", "e", "n", "t">>,
     <<"b", "i", "e", "n", " ", "&agrave;", " ", "v", "o", "u", "s">>,
     <<"s", "a", "l", "u", "t", "a", "t", "i", "o", "n", "s">> >>

\* static INFORMAL_INDICATORS
INFORMAL_INDICATORS ==
  << <<"s", "a", "l", "u", "t">>,
     <<"c", "o", "u", "c", "o", "u">>,
     <<"o", "u", "a", "i", "s">>,
     <<"c", "o", "o", "l">>,
     <<"l", "o", "l">>,
     <<"m", "d", "r">>,
     <<"p", "t", "d", "r">>,
     <<"t", "k", "t">>,
     <<"j", "s", "p">>,
     <<"w", "s", "h">>,
     <<"b", "g">>,
     <<"o", "k", "l", "m">>,
     <<"y", "o">>,
     <<"h", "e", "y">>,
     <<"c", "c">>,
     <<"t", "r", "a", "n", "q", "u", "i", "l", "l", "e">>,
     <<"g", "r", "a", "v", "e">>,
     <<"t", "r", "o", "p">>,
     <<"g", "e", "n", "r", "e">>,
     <<"q", "u", "o", "i">>,
     <<"n", "a", "n">> >>

\* static POSITIVE_INDICATORS
POSITIVE_INDICATORS ==
  << <<"c", "o", "n", "t", "e", "n", "t">>,
     <<"s", "u", "p", "e", "r">>,
     <<"g", "&eacute;", "n", "i", "a", "l">>,
     <<"c", "o", "o", "l">>,
     <<"p", "a", "r", "f", "a", "i", "t">>,
     <<"m", "e", "r", "c", "i">>,
     <<"t", "o", "p">>,
     <<"e", "x", "c", "e", "l", "l", "e", "n", "t">>,
     <<"b", "r", "a", "v", "o">>,
     <<"m", "a", "g", "n", "i", "f", "i", "q", "u", "e">>,
     <<"i", "n", "c", "r", "o", "y", "a", "b", "l", "e">>,
     <<"h", "e", "u", "r", "e", "u", "x">>,
     <<"r", "a", "v", "i">>,
     <<"a", "d", "o", "r", "a", "b", "l", "e">>,
     <<"f", "o", "r", "m", "i", "d", "a", "b", "l", "e">>,
     <<"c", "h", "o", "u", "e", "t", "t", "e">> >>

\* static NEGATIVE_INDICATORS
NEGATIVE_INDICATORS ==
  << <<"d", "&eacute;", "s", "o", "l", "&eacute;">>,
     <<"d", "o", "m", "m", "a", "g", "e">>,
     <<"p", "r", "o", "b", "l", "&egrave;", "m", "e">>,
     <<"m", "a", "l", "h", "e", "u", "r", "e", "u", "s", "e", "m", "e", "n", "t">>,
     <<"t", "r", "i", "s", "t", "e">>,
     <<"i", "n", "q", "u", "i", "e", "t">>,
     <<"s", "t", "r", "e", "s", "s", "&eacute;">>,
     <<"d", "i", "f", "f", "i", "c", "i", "l", "e">>,
     <<"c", "o", "m", "p", "l", "i", "q", "u", "&eacute;">>,
     <<"e", "n", "n", "u", "y", "e", "u", "x">>,
     <<"f", "r", "u", "s", "t", "r", "a", "n", "t">>,
     <<"d", "&eacute;", "c", "e", "v", "a", "n", "t">>,
     <<"m", "a", "u", "v", "a", "i", "s">>,
     <<"t", "e", "r", "r", "i", "b", "l", "e">>,
     <<"h", "o", "r", "r", "i", "b", "l", "e">> >>

\* static POSITIVE_EMOJIS
POSITIVE_EMOJIS ==
  << <<":smiling:">>,
     <<":joy:">>,
     <<":smile:">>,
     <<":smiley:">>,
     <<":slight_smile:">>,
     <<":heart:">>,
     <<":two_hearts:">>,
     <<":thumbsup:">>,
     <<":tada:">>,
     <<":sparkles:">>,
     <<":partying:">>,
     <<":grin:">>,
     <<":hugging:">>,
     <<":muscle:">>,
     <<":clap:">> >>

\* static NEGATIVE_EMOJIS
NEGATIVE_EMOJIS ==
  << <<":cry:">>,
     <<":pensive:">>,
     <<":rage:">>,
     <<":broken_heart:">>,
     <<":triumph:">>,
     <<":disappointed:">>,
     <<":worried:">>,
     <<":cold_sweat:">>,
     <<":sob:">>,
     <<":slight_frown:">>,
     <<":confused:">>,
     <<":persevere:">> >>

\* static TOPIC_KEYWORDS, in the order of Object.entries (an accent is written as in the texts)
TOPIC_KEYWORDS ==
  << [ topic |-> "travail",
       keywords |->
       << <<"t", "r", "a", "v", "a", "i", "l">>, <<"p", "r", "o", "j", "e", "t">>,
          <<"r", "&eacute;", "u", "n", "i", "o", "n">>,
          <<"b", "u", "r", "e", "a", "u">>, <<"c", "h", "e", "f">>,
          <<"c", "o", "l", "l", "&egrave;", "g", "u", "e">>,
          <<"d", "e", "a", "d", "l", "i", "n", "e">>,
          <<"m", "e", "e", "t", "i", "n", "g">>, <<"b", "o", "s", "s">>,
          <<"b", "o", "u", "l", "o", "t">>, <<"j", "o", "b">> >> ],
     [ topic |-> "rendez-vous",
       keywords |->
       << <<"r", "d", "v">>,
          <<"r", "e", "n", "d", "e", "z", "-", "v", "o", "u", "s">>,
          <<"v", "o", "i", "r">>,
          <<"r", "e", "n", "c", "o", "n", "t", "r", "e", "r">>,
          <<"h", "e", "u", "r", "e">>, <<"d", "e", "m", "a", "i", "n">>,
          <<"c", "e", " ", "s", "o", "i", "r">>, <<"s", "a", "m", "e", "d", "i">>,
          <<"d", "i", "m", "a", "n", "c", "h", "e">>,
          <<"w", "e", "e", "k", "-", "e", "n", "d">> >> ],
     [ topic |-> "loisirs",
       keywords |->
       << <<"f", "i", "l", "m">>, <<"s", "&eacute;", "r", "i", "e">>, <<"j", "e", "u">>,
          <<"s", "p", "o", "r", "t">>, <<"m", "u", "s", "i", "q", "u", "e">>,
          <<"c", "o", "n", "c", "e", "r", "t">>,
          <<"s", "o", "i", "r", "&eacute;", "e">>, <<"s", "o", "r", "t", "i", "e">>,
          <<"r", "e", "s", "t", "o">>, <<"b", "a", "r">> >> ],
     [ topic |-> "nourriture",
       keywords |->
       << <<"m", "a", "n", "g", "e", "r">>,
          <<"r", "e", "s", "t", "a", "u", "r", "a", "n", "t">>,
          <<"b", "o", "u", "f", "f", "e">>, <<"d", "&icirc;", "n", "e", "r">>,
          <<"d", "&eacute;", "j", "e", "u", "n", "e", "r">>,
          <<"p", "e", "t", "i", "t", "-", "d", "e", "j">>,
          <<"c", "a", "f", "&eacute;">>, <<"b", "o", "i", "r", "e">>,
          <<"f", "a", "i", "m">> >> ],
     [ topic |-> "voyage",
       keywords |->
       << <<"v", "o", "y", "a", "g", "e">>,
          <<"v", "a", "c", "a", "n", "c", "e", "s">>,
          <<"p", "a", "r", "t", "i", "r">>,
          <<"d", "e", "s", "t", "i", "n", "a", "t", "i", "o", "n">>,
          <<"a", "v", "i", "o", "n">>, <<"t", "r", "a", "i", "n">>,
          <<"h", "&ocirc;", "t", "e", "l">>, <<"p", "l", "a", "g", "e">>,
          <<"m", "o", "n", "t", "a", "g", "n", "e">> >> ],
     [ topic |-> "famille",
       keywords |->
       << <<"f", "a", "m", "i", "l", "l", "e">>,
          <<"p", "a", "r", "e", "n", "t", "s">>, <<"m", "a", "m", "a", "n">>,
          <<"p", "a", "p", "a">>, <<"f", "r", "&egrave;", "r", "e">>,
          <<"s", "o", "e", "u", "r">>, <<"e", "n", "f", "a", "n", "t", "s">>,
          <<"b", "&eacute;", "b", "&eacute;">>, <<"m", "a", "r", "i", "a", "g", "e">> >> ],
     [ topic |-> "sant&eacute;",
       keywords |->
       << <<"s", "a", "n", "t", "&eacute;">>, <<"m", "&eacute;", "d", "e", "c", "i", "n">>,
          <<"m", "a", "l", "a", "d", "e">>,
          <<"h", "&ocirc;", "p", "i", "t", "a", "l">>,
          <<"d", "o", "c", "t", "e", "u", "r">>,
          <<"f", "a", "t", "i", "g", "u", "e">>, <<"r", "e", "p", "o", "s">>,
          <<"d", "o", "r", "m", "i", "r">> >> ],
     [ topic |-> "argent",
       keywords |->
       << <<"a", "r", "g", "e", "n", "t">>, <<"p", "a", "y", "e", "r">>,
          <<"p", "r", "i", "x">>, <<"c", "h", "e", "r">>,
          <<"b", "u", "d", "g", "e", "t">>,
          <<"&eacute;", "c", "o", "n", "o", "m", "i", "e", "s">>,
          <<"a", "c", "h", "e", "t", "e", "r">>,
          <<"v", "e", "n", "d", "r", "e">> >> ] >>

\* static URGENCY_INDICATORS.high
URGENCY_HIGH ==
  << <<"u", "r", "g", "e", "n", "t">>, <<"v", "i", "t", "e">>,
     <<"r", "a", "p", "i", "d", "e", "m", "e", "n", "t">>,
     <<"a", "s", "a", "p">>,
     <<"i", "m", "m", "&eacute;", "d", "i", "a", "t", "e", "m", "e", "n", "t">>,
     <<"m", "a", "i", "n", "t", "e", "n", "a", "n", "t">>,
     <<"t", "o", "u", "t", " ", "d", "e", " ", "s", "u", "i", "t", "e">>,
     <<"d", "&eacute;", "p", "&ecirc;", "c", "h", "e">> >>

\* static URGENCY_INDICATORS.low
URGENCY_LOW ==
  << <<"q", "u", "a", "n", "d", " ", "t", "u", " ", "p", "e", "u", "x">>,
     <<"p", "a", "s", " ", "p", "r", "e", "s", "s", "&eacute;">>,
     <<"t", "r", "a", "n", "q", "u", "i", "l", "l", "e">>,
     <<"&agrave;", " ", "l", "'", "o", "c", "c", "a", "s", "i", "o", "n">>,
     <<"u", "n", " ", "j", "o", "u", "r">> >>

\* /\b(patron|chef|manager|directeur|client)\b/i
professionalPattern ==
  << <<"p", "a", "t", "r", "o", "n">>, <<"c", "h", "e", "f">>,
     <<"m", "a", "n", "a", "g", "e", "r">>,
     <<"d", "i", "r", "e", "c", "t", "e", "u", "r">>,
     <<"c", "l", "i", "e", "n", "t">> >>

\* /\b(maman|papa|famille|parents?|fr&egrave;re|soeur)\b/i, parents? spelt out
familyPattern ==
  << <<"m", "a", "m", "a", "n">>, <<"p", "a", "p", "a">>,
     <<"f", "a", "m", "i", "l", "l", "e">>, <<"p", "a", "r", "e", "n", "t">>,
     <<"p", "a", "r", "e", "n", "t", "s">>, <<"f", "r", "&egrave;", "r", "e">>,
     <<"s", "o", "e", "u", "r">> >>

\* /\b(coll&egrave;gue|bureau|travail|r&eacute;union|projet)\b/i
colleaguePattern ==
  << <<"c", "o", "l", "l", "&egrave;", "g", "u", "e">>,
     <<"b", "u", "r", "e", "a", "u">>, <<"t", "r", "a", "v", "a", "i", "l">>,
     <<"r", "&eacute;", "u", "n", "i", "o", "n">>,
     <<"p", "r", "o", "j", "e", "t">> >>

\* /\b(ch&eacute;ri|b&eacute;b&eacute;|mon amour|ma puce|mon coeur)\b/i
couplePattern ==
  << <<"c", "h", "&eacute;", "r", "i">>, <<"b", "&eacute;", "b", "&eacute;">>,
     <<"m", "o", "n", " ", "a", "m", "o", "u", "r">>,
     <<"m", "a", " ", "p", "u", "c", "e">>,
     <<"m", "o", "n", " ", "c", "o", "e", "u", "r">> >>

\* the id of the user on whose behalf the analyzer is called
currentUserId == "me"

\* messages.map((m) => m.content).join(' ')
RECURSIVE JoinContents(_)
JoinContents(msgs) ==
  IF msgs = <<>> THEN <<>>
  ELSE IF Len(msgs) = 1 THEN msgs[1].content
  ELSE msgs[1].content \o <<" ">> \o JoinContents(Tail(msgs))

\* messages.map((m) => m.content.toLowerCase()).join(' ')
JoinLowered(msgs) == toLowerCase(JoinContents(msgs))

\* the total of the word matches of the entries of a dictionary
RECURSIVE SumWordMatchesAt(_, _, _)
SumWordMatchesAt(s, words, boundaries) ==
  IF words = <<>> THEN 0
  ELSE CountWordFrom(s, Head(words), 1, boundaries)
       + SumWordMatchesAt(s, Tail(words), boundaries)

SumWordMatches(s, words) == SumWordMatchesAt(s, words, WordBoundaries(s))

\* the total of the literal matches of the entries of a dictionary
RECURSIVE SumMatches(_, _)
SumMatches(s, words) ==
  IF words = <<>> THEN 0
  ELSE CountMatches(s, Head(words)) + SumMatches(s, Tail(words))

\* the number of entries of a dictionary that s includes
CountIncluded(s, words) ==
  Cardinality({ k \in 1..Len(words) : includes(s, words[k]) })

\* keywords.some((keyword) => content.includes(keyword))
SomeIncluded(s, words) == \E k \in 1..Len(words) : includes(s, words[k])

\* /\b(w1|w2|...)\b/i.test(s)
TestPattern(s, words) ==
  LET boundaries == WordBoundaries(s) IN
  \E k \in 1..Len(words) :
    \E p \in boundaries : WordOccursAt(s, words[k], p)

\* detectTone, formalScore: one per match, counted in halves
formalScore(msgs) == 2 * SumWordMatches(JoinLowered(msgs), FORMAL_INDICATORS)

\* (variant: the informal weight of 1 instead of 1.5)
informalScoreUnweighted(msgs) ==
  2 * SumWordMatches(JoinLowered(msgs), INFORMAL_INDICATORS)
\* detectTone, informalScore: 1.5 per match, counted in halves
informalScore(msgs) ==
  3 * SumWordMatches(JoinLowered(msgs), INFORMAL_INDICATORS)

\* (variant: formal as soon as the formal score is the larger one)
detectToneNoMargin(msgs) ==
  LET formal == formalScore(msgs)
      informal == informalScore(msgs)
  IN IF formal > informal THEN "formel"
     ELSE IF informal > formal THEN "informel"
     ELSE "neutre"
detectTone(msgs) ==
  LET formal == formalScore(msgs)
      informal == informalScore(msgs)
  IN IF formal > informal * 2 THEN "formel"
     ELSE IF informal > formal THEN "informel"
     ELSE "neutre"

\* (variant: without the test of the tone)
detectRelationshipIgnoringTone(msgs, tone) ==
  LET content == JoinLowered(msgs) IN
  IF TestPattern(content, professionalPattern) THEN "professionnel"
  ELSE IF TestPattern(content, familyPattern) THEN "famille"
  ELSE IF TestPattern(content, colleaguePattern) THEN "collegue"
  ELSE IF TestPattern(content, couplePattern) THEN "couple"
  ELSE "ami"
\* (variant: the colleague pattern tested before the family pattern)
detectRelationshipColleagueFirst(msgs, tone) ==
  LET content == JoinLowered(msgs) IN
  IF tone = "formel" THEN "professionnel"
  ELSE IF TestPattern(content, professionalPattern) THEN "professionnel"
  ELSE IF TestPattern(content, colleaguePattern) THEN "collegue"
  ELSE IF TestPattern(content, familyPattern) THEN "famille"
  ELSE IF TestPattern(content, couplePattern) THEN "couple"
  ELSE "ami"
detectRelationship(msgs, tone) ==
  LET content == JoinLowered(msgs) IN
  IF tone = "formel" THEN "professionnel"
  ELSE IF TestPattern(content, professionalPattern) THEN "professionnel"
  ELSE IF TestPattern(content, familyPattern) THEN "famille"
  ELSE IF TestPattern(content, colleaguePattern) THEN "collegue"
  ELSE IF TestPattern(content, couplePattern) THEN "couple"
  ELSE "ami"

\* the topics of TOPIC_KEYWORDS[from..] that the content has a keyword of
RECURSIVE MatchedTopics(_, _)
MatchedTopics(content, from) ==
  IF from > Len(TOPIC_KEYWORDS) THEN <<>>
  ELSE (IF SomeIncluded(content, TOPIC_KEYWORDS[from].keywords)
        THEN << TOPIC_KEYWORDS[from].topic >> ELSE <<>>)
       \o MatchedTopics(content, from + 1)

extractTopics(msgs) ==
  LET topics == MatchedTopics(JoinLowered(msgs), 1) IN
  IF Len(topics) > 0 THEN topics ELSE << "discussion generale" >>

\* Math.min(exclamations, 3)
MaxExclamationBonus == 3

\* detectEmotionalTone, positiveScore: one per word present, two per emoji
\* match, one per exclamation mark up to three
positiveScore(msgs) ==
  LET allContent == JoinContents(msgs) IN
  CountIncluded(toLowerCase(allContent), POSITIVE_INDICATORS)
  + 2 * SumMatches(allContent, POSITIVE_EMOJIS)
  + Min(CountMatches(allContent, << "!" >>), MaxExclamationBonus)

\* detectEmotionalTone, negativeScore: one per word present, two per emoji
\* match
negativeScore(msgs) ==
  LET allContent == JoinContents(msgs) IN
  CountIncluded(toLowerCase(allContent), NEGATIVE_INDICATORS)
  + 2 * SumMatches(allContent, NEGATIVE_EMOJIS)

\* positiveScore > negativeScore * 1.5 is compared on the doubled scores
detectEmotionalTone(msgs) ==
  LET positive == positiveScore(msgs)
      negative == negativeScore(msgs)
  IN IF 2 * positive > 3 * negative THEN "positif"
     ELSE IF negative > positive THEN "negatif"
     ELSE "neutre"

\* messages.slice(-n)
LastMessages(msgs, n) ==
  IF Len(msgs) <= n THEN msgs ELSE SubSeq(msgs, Len(msgs) - n + 1, Len(msgs))

\* recentMessages of analyzeConversationFlow: slice(-5)
RecentWindow == 5
\* questionCount >= 2
QuestionThreshold == 2
\* myMessages >= 3
MyMessagesThreshold == 3
\* messages.length > 20
ProlongedThreshold == 20

\* the recent messages whose content includes "?"
questionCount(msgs) ==
  LET recentMessages == LastMessages(msgs, RecentWindow) IN
  Cardinality({ k \in 1..Len(recentMessages) :
                  includes(recentMessages[k].content, << "?" >>) })

\* the recent messages that the current user sent
myMessages(msgs, userId) ==
  LET recentMessages == LastMessages(msgs, RecentWindow) IN
  Cardinality({ k \in 1..Len(recentMessages) :
                  recentMessages[k].senderId = userId })

\* (variant: the authorship test before the question test)
analyzeConversationFlowActiveFirst(msgs, userId) ==
  IF Len(msgs) < 2 THEN "debut"
  ELSE IF myMessages(msgs, userId) >= MyMessagesThreshold THEN "actif"
  ELSE IF questionCount(msgs) >= QuestionThreshold THEN "interrogatif"
  ELSE IF Len(msgs) > ProlongedThreshold THEN "prolonge"
  ELSE "fluide"
analyzeConversationFlow(msgs, userId) ==
  IF Len(msgs) < 2 THEN "debut"
  ELSE IF questionCount(msgs) >= QuestionThreshold THEN "interrogatif"
  ELSE IF myMessages(msgs, userId) >= MyMessagesThreshold THEN "actif"
  ELSE IF Len(msgs) > ProlongedThreshold THEN "prolonge"
  ELSE "fluide"

\* messages.filter((m) => m.senderId !== currentUserId)
RECURSIVE otherMessages(_, _)
otherMessages(msgs, userId) ==
  IF msgs = <<>> THEN <<>>
  ELSE (IF Head(msgs).senderId # userId THEN << Head(msgs) >> ELSE <<>>)
       \o otherMessages(Tail(msgs), userId)

\* the length limits of the four conversation types
ShortConversation == 3
MediumConversation == 10
LongConversation == 30

\* topics.slice(0, 2).join(' et ')
JoinTopics(topics) ==
  IF Len(topics) = 1 THEN << topics[1] >> ELSE << topics[1], " et ", topics[2] >>

\* createConversationSummary; the summary is the list of the pieces it is
\* concatenated from
createConversationSummary(msgs, userId, topics) ==
  LET others == otherMessages(msgs, userId)
      type == IF Len(msgs) <= ShortConversation THEN "Debut de conversation"
              ELSE IF Len(msgs) <= MediumConversation
                THEN "Conversation en cours"
              ELSE IF Len(msgs) <= LongConversation THEN "Discussion active"
              ELSE "Longue discussion"
      subjects == IF Len(topics) > 0 /\ topics[1] # "discussion generale"
                  THEN << " portant sur " >> \o JoinTopics(topics)
                  ELSE <<>>
      lastOther == others[Len(others)].content
      pending == IF Len(others) = 0 THEN <<>>
                 ELSE IF includes(lastOther, << "?" >>)
                   THEN << ". Question en attente de reponse" >>
                 ELSE IF Len(lastOther) > 0 /\ lastOther[Len(lastOther)] = "!"
                   THEN << ". Message enthousiaste recu" >>
                 ELSE <<>>
  IN IF Len(msgs) = 0 THEN << "Nouvelle conversation" >>
     ELSE << type >> \o subjects \o pending

\* messages.slice(-3) of detectUrgency
UrgencyWindow == 3

detectUrgency(msgs) ==
  LET recentContent == JoinLowered(LastMessages(msgs, UrgencyWindow)) IN
  IF SomeIncluded(recentContent, URGENCY_HIGH) THEN "urgent"
  ELSE IF SomeIncluded(recentContent, URGENCY_LOW) THEN "faible"
  ELSE "normal"

\* formality = 0.5, as a fraction
DefaultFormality == [num |-> 1, den |-> 2]

\* calculateFormality; the quotient formalScore / total is kept as a fraction
calculateFormality(msgs) ==
  LET allContent == JoinLowered(msgs)
      formal == CountIncluded(allContent, FORMAL_INDICATORS)
      informal == CountIncluded(allContent, INFORMAL_INDICATORS)
      total == formal + informal
  IN IF total = 0 THEN DefaultFormality ELSE [num |-> formal, den |-> total]

\* the defaults of the constructor of ConversationAnalysis
DefaultAnalysis ==
  [ tone |-> "neutre",
    relationship |-> "inconnu",
    topics |-> <<>>,
    conversationSummary |-> <<>>,
    messageCount |-> 0,
    lastSpeaker |-> "",
    conversationFlow |-> "debut",
    emotionalTone |-> "neutre",
    urgency |-> "normal",
    formality |-> DefaultFormality ]

\* new ConversationAnalysis(fields)
ConversationAnalysis(fields) ==
  [ f \in DOMAIN DefaultAnalysis |->
      IF f \in DOMAIN fields THEN fields[f] ELSE DefaultAnalysis[f] ]

\* the body of the try of analyze: the ten computed fields
computeAnalysis(msgs, userId) ==
  LET tone == detectTone(msgs)
      topics == extractTopics(msgs)
      lastMessage == msgs[Len(msgs)]
  IN ConversationAnalysis(
       [ tone |-> tone,
         relationship |-> detectRelationship(msgs, tone),
         topics |-> topics,
         conversationSummary |->
           createConversationSummary(msgs, userId, topics),
         messageCount |-> Len(msgs),
         lastSpeaker |-> IF lastMessage.senderId = userId THEN "moi"
                         ELSE lastMessage.senderName,
         conversationFlow |-> analyzeConversationFlow(msgs, userId),
         emotionalTone |-> detectEmotionalTone(msgs),
         urgency |-> detectUrgency(msgs),
         formality |-> calculateFormality(msgs) ])

\* (variant: without the early return; lastMessage.senderId then throws on
\* the empty list and the catch returns new ConversationAnalysis())
analyzeWithoutEarlyReturn(msgs, userId) ==
  IF Len(msgs) = 0 THEN ConversationAnalysis(<<>>)
  ELSE computeAnalysis(msgs, userId)
\* analyze: the default context with its summary for no message, the computed
\* fields otherwise. The messages are validated ones (content, senderId and
\* senderName are strings), on which nothing in the try throws.
analyze(msgs, userId) ==
  IF Len(msgs) = 0
    THEN ConversationAnalysis(
           [ conversationSummary |-> << "Nouvelle conversation" >> ])
  ELSE computeAnalysis(msgs, userId)

\* ---------------------------------------------------- analyze, called alone

\* the sender name of the other participant
OtherName == "Alice"

\* a message of the conversation
Message(content, senderId) ==
  [ content |-> content,
    senderId |-> senderId,
    senderName |-> IF senderId = currentUserId THEN "Moi" ELSE OtherName ]

\* the transcripts of at most n messages with contents and senders drawn
\* from the given sets
RECURSIVE Transcripts(_, _, _)
Transcripts(contents, senders, n) ==
  IF n = 0 THEN { <<>> }
  ELSE LET shorter == Transcripts(contents, senders, n - 1) IN
       shorter \cup
         { Append(t, Message(c, s)) :
             t \in { u \in shorter : Len(u) = n - 1 },
             c \in contents, s \in senders }

\* contents with formal and informal indicators and with the keywords of the
\* relationship patterns
ToneContents ==
  { <<"B", "o", "n", "j", "o", "u", "r", " ", "m", "e", "r", "c", "i">>,
    <<"B", "o", "n", "j", "o", "u", "r", " ", "M", "a", "d", "a", "m", "e", ",",
      " ", "m", "e", "r", "c", "i", ",", " ",
      "c", "o", "r", "d", "i", "a", "l", "e", "m", "e", "n", "t">>,
    <<"b", "o", "n", "j", "o", "u", "r", " ", "l", "o", "l">>,
    <<"c", "h", "e", "f">>,
    <<"m", "a", "m", "a", "n">>,
    <<"b", "u", "r", "e", "a", "u">>,
    <<"m", "o", "n", " ", "a", "m", "o", "u", "r">>,
    <<"b", "&eacute;", "b", "&eacute;">> }

\* contents with positive and negative words, emojis and exclamation marks
EmotionContents ==
  { <<"s", "u", "p", "e", "r">>,
    <<"S", "u", "p", "e", "r", " ", "s", "u", "p", "e", "r">>,
    <<"t", "r", "i", "s", "t", "e">>,
    <<"t", "r", "i", "s", "t", "e", " ", "t", "r", "i", "s", "t", "e">>,
    <<":smile:", ":smile:">>,
    <<":cry:">>,
    <<"o", "k", "!", "!", "!", "!">>,
    <<"o", "k">> }

\* analyze is called on a transcript of tone and relationship contents; a
\* missing list takes the branch of the empty one (!messages ||
\* messages.length === 0) and is represented by it
InitAnalyze ==
  /\ OrchestratorIdle
  /\ RouteIdle
  /\ cleanInput = <<>>
  /\ cleaned = <<>>
  /\ cleanPc = "idle"
  /\ cleanBody = <<>>
  /\ messages \in Transcripts(ToneContents, {currentUserId, "other"},
                               MaxMessages)
  /\ analysis = NoAnalysis
  /\ analyzerPc = "ready"
  /\ BuilderIdle

\* analyze is called on a transcript of emotional contents
InitEmotion ==
  /\ OrchestratorIdle
  /\ RouteIdle
  /\ cleanInput = <<>>
  /\ cleaned = <<>>
  /\ cleanPc = "idle"
  /\ cleanBody = <<>>
  /\ messages \in Transcripts(EmotionContents, {"other"}, MaxMessages)
  /\ analysis = NoAnalysis
  /\ analyzerPc = "ready"
  /\ BuilderIdle

\* ConversationAnalyzer.analyze(messages, currentUserId, currentUserName)
Analyze ==
  /\ analyzerPc = "ready"
  /\ analysis' = analyze(messages, currentUserId)
  /\ analyzerPc' = "done"
  /\ UNCHANGED << messages, orchestratorVars, cleanVars, builderVars, routeVars >>

NextAnalyze == Analyze

SpecAnalyze == InitAnalyze /\ [][NextAnalyze]_vars

SpecEmotion == InitEmotion /\ [][NextAnalyze]_vars

\* contents that end with, or only contain, a question or an exclamation mark
SummaryContents ==
  { <<"o", "k">>,
    <<"o", "k", " ", "?">>,
    <<"o", "k", " ", "?", " ", "o", "u", "i">>,
    <<"s", "u", "p", "e", "r", " ", "!">>,
    <<"q", "u", "o", "i", " ", "?", " ", "s", "u", "p", "e", "r", " ", "!">> }

\* analyze is called on a transcript of such contents
InitSummary ==
  /\ OrchestratorIdle
  /\ RouteIdle
  /\ cleanInput = <<>>
  /\ cleaned = <<>>
  /\ cleanPc = "idle"
  /\ cleanBody = <<>>
  /\ messages \in Transcripts(SummaryContents, {currentUserId, "other"},
                               MaxMessages)
  /\ analysis = NoAnalysis
  /\ analyzerPc = "ready"
  /\ BuilderIdle

SpecSummary == InitSummary /\ [][NextAnalyze]_vars

\* ------------------------------------- analyzeConversationFlow, called alone

\* the four kinds of message the flow tells apart: sent by the current user
\* or not, with a question mark or not
FlowMessages ==
  { Message(c, s) : c \in { <<"o", "k">>, <<"o", "k", " ", "?">> },
                    s \in { currentUserId, "other" } }

\* n copies of message m
Repeat(m, n) == [ k \in 1..n |-> m ]

\* the transcripts of at most n messages: any recent messages, after older
\* messages of one kind
FlowTranscripts(n) ==
  { t \in Transcripts({ <<"o", "k">>, <<"o", "k", " ", "?">> },
                      { currentUserId, "other" }, Min(n, RecentWindow)) :
      TRUE }
  \cup
  { Repeat(m, k) \o t :
      m \in FlowMessages, k \in 1..(n - RecentWindow),
      t \in { u \in Transcripts({ <<"o", "k">>, <<"o", "k", " ", "?">> },
                                { currentUserId, "other" }, RecentWindow) :
                Len(u) = RecentWindow } }

InitFlow ==
  /\ OrchestratorIdle
  /\ RouteIdle
  /\ cleanInput = <<>>
  /\ cleaned = <<>>
  /\ cleanPc = "idle"
  /\ cleanBody = <<>>
  /\ messages \in FlowTranscripts(MaxFlowMessages)
  /\ analysis = NoAnalysis
  /\ analyzerPc = "ready"
  /\ BuilderIdle

\* ConversationAnalyzer.analyzeConversationFlow(messages, currentUserId)
AnalyzeConversationFlow ==
  /\ analyzerPc = "ready"
  /\ analysis' =
       [ conversationFlow |-> analyzeConversationFlow(messages, currentUserId) ]
  /\ analyzerPc' = "done"
  /\ UNCHANGED << messages, orchestratorVars, cleanVars, builderVars, routeVars >>

NextFlow == AnalyzeConversationFlow

SpecFlow == InitFlow /\ [][NextFlow]_vars


\* ------------------------------------------------------------ prompt builder

\* the name of the user on whose behalf the prompt is built
currentUserName == "Moi"

\* messages.length > 8
ContextThreshold == 8
\* messages.slice(0, messages.length - 6), messages.slice(-6)
RecentContext == 6

\* `${i + 1}. ${prefix}: "${msg.content}"`, kept as its parts
MessageLine(msg, index, userId, userName) ==
  [ kind |-> "message",
    index |-> index,
    prefix |-> IF msg.senderId = userId THEN << "[MOI] ", userName >>
               ELSE << msg.senderName >>,
    content |-> msg.content ]

\* msgs.forEach((msg, i) => lines.push(...))
MessageLines(msgs, userId, userName) ==
  [ k \in 1..Len(msgs) |-> MessageLine(msgs[k], k, userId, userName) ]

\* oldMessages.filter((m) => m.senderId === currentUserId).length
CountMine(msgs, userId) ==
  Cardinality({ k \in 1..Len(msgs) : msgs[k].senderId = userId })

\* oldMessages.find((m) => m.senderId !== currentUserId)?.senderName ||
\* 'Contact'
FirstOtherName(msgs, userId) ==
  LET others == { k \in 1..Len(msgs) : msgs[k].senderId # userId } IN
  IF others = {} THEN "Contact" ELSE msgs[Minimum(others)].senderName

\* (variant: the old messages are those before the last eight)
buildStructuredContextSplitAtThreshold(msgs, userId, userName) ==
  IF Len(msgs) = 0
    THEN << [ kind |-> "empty" ] >>
  ELSE IF Len(msgs) > ContextThreshold
    THEN LET oldMessages == SubSeq(msgs, 1, Len(msgs) - ContextThreshold)
             recentMessages == LastMessages(msgs, RecentContext)
             myCount == CountMine(oldMessages, userId)
         IN << [ kind |-> "header", count |-> Len(oldMessages) ],
               [ kind |-> "summary",
                 myCount |-> myCount,
                 otherCount |-> Len(oldMessages) - myCount,
                 otherName |-> FirstOtherName(oldMessages, userId) ],
               [ kind |-> "blank" ],
               [ kind |-> "recent" ] >>
            \o MessageLines(recentMessages, userId, userName)
  ELSE MessageLines(msgs, userId, userName)
\* buildStructuredContext; the text is kept as the list of its lines
buildStructuredContext(msgs, userId, userName) ==
  IF Len(msgs) = 0
    THEN << [ kind |-> "empty" ] >>
  ELSE IF Len(msgs) > ContextThreshold
    THEN LET oldMessages == SubSeq(msgs, 1, Len(msgs) - RecentContext)
             recentMessages == LastMessages(msgs, RecentContext)
             myCount == CountMine(oldMessages, userId)
         IN << [ kind |-> "header", count |-> Len(oldMessages) ],
               [ kind |-> "summary",
                 myCount |-> myCount,
                 otherCount |-> Len(oldMessages) - myCount,
                 otherName |-> FirstOtherName(oldMessages, userId) ],
               [ kind |-> "blank" ],
               [ kind |-> "recent" ] >>
            \o MessageLines(recentMessages, userId, userName)
  ELSE MessageLines(msgs, userId, userName)

\* the transcripts of at most n messages, the k-th with a content of its own
\* (k letters), from any of the two senders
ContextTranscripts(n) ==
  UNION { { [ k \in 1..len |-> Message(Repeat("x", k), sender[k]) ] :
              sender \in [ 1..len -> { currentUserId, "other" } ] } :
          len \in 0..n }

InitContext ==
  /\ OrchestratorIdle
  /\ RouteIdle
  /\ cleanInput = <<>>
  /\ cleaned = <<>>
  /\ cleanPc = "idle"
  /\ cleanBody = <<>>
  /\ messages \in ContextTranscripts(MaxContextMessages)
  /\ analysis = NoAnalysis
  /\ analyzerPc = "idle"
  /\ context = <<>>
  /\ expectedResponse = "none"
  /\ builderPc = "ready"

\* PromptBuilder.buildStructuredContext(messages, currentUserId,
\* currentUserName)
BuildStructuredContext ==
  /\ builderPc = "ready"
  /\ context' = buildStructuredContext(messages, currentUserId, currentUserName)
  /\ builderPc' = "done"
  /\ UNCHANGED << expectedResponse, orchestratorVars, cleanVars, analyzerVars, routeVars >>

NextContext == BuildStructuredContext

SpecContext == InitContext /\ [][NextContext]_vars


\* /\b(quand|quelle heure|&agrave; quelle)\b/i
temporalPattern ==
  << <<"q", "u", "a", "n", "d">>,
     <<"q", "u", "e", "l", "l", "e", " ", "h", "e", "u", "r", "e">>,
     <<"&agrave;", " ", "q", "u", "e", "l", "l", "e">> >>

\* /\b(o&ugrave;|quel endroit|quel lieu)\b/i
locationPattern ==
  << <<"o", "&ugrave;">>,
     <<"q", "u", "e", "l", " ", "e", "n", "d", "r", "o", "i", "t">>,
     <<"q", "u", "e", "l", " ", "l", "i", "e", "u">> >>

\* /\b(comment|pourquoi|explique)\b/i
explanatoryPattern ==
  << <<"c", "o", "m", "m", "e", "n", "t">>,
     <<"p", "o", "u", "r", "q", "u", "o", "i">>,
     <<"e", "x", "p", "l", "i", "q", "u", "e">> >>

\* /\b(tu veux|on fait|&ccedil;a te dit)\b/i
proposalPattern ==
  << <<"t", "u", " ", "v", "e", "u", "x">>,
     <<"o", "n", " ", "f", "a", "i", "t">>,
     <<"&ccedil;", "a", " ", "t", "e", " ", "d", "i", "t">> >>

\* /\b(ok|d'accord|parfait|super|bien)\b/i
validationPattern ==
  << <<"o", "k">>,
     <<"d", "'", "a", "c", "c", "o", "r", "d">>,
     <<"p", "a", "r", "f", "a", "i", "t">>,
     <<"s", "u", "p", "e", "r">>,
     <<"b", "i", "e", "n">> >>

\* String.prototype.endsWith
endsWith(s, suffix) ==
  Len(s) >= Len(suffix) /\ OccursAt(s, suffix, Len(s) - Len(suffix) + 1)

\* (variant: the exclamation test before the question test)
analyzeExpectedResponseExclamationFirst(message) ==
  LET lower == toLowerCase(message) IN
  IF endsWith(message, << "!" >>) THEN "exclamation"
  ELSE IF includes(message, << "?" >>)
    THEN IF TestPattern(lower, temporalPattern) THEN "temporelle"
         ELSE IF TestPattern(lower, locationPattern) THEN "lieu"
         ELSE IF TestPattern(lower, explanatoryPattern) THEN "explicative"
         ELSE IF TestPattern(lower, proposalPattern) THEN "proposition"
         ELSE "ouverte"
  ELSE IF TestPattern(lower, validationPattern) THEN "validation"
  ELSE "affirmation"
\* analyzeExpectedResponse: the type of the returned record
analyzeExpectedResponse(message) ==
  LET lower == toLowerCase(message) IN
  IF includes(message, << "?" >>)
    THEN IF TestPattern(lower, temporalPattern) THEN "temporelle"
         ELSE IF TestPattern(lower, locationPattern) THEN "lieu"
         ELSE IF TestPattern(lower, explanatoryPattern) THEN "explicative"
         ELSE IF TestPattern(lower, proposalPattern) THEN "proposition"
         ELSE "ouverte"
  ELSE IF endsWith(message, << "!" >>) THEN "exclamation"
  ELSE IF TestPattern(lower, validationPattern) THEN "validation"
  ELSE "affirmation"

\* the words and marks that the message texts are made of
ResponseFragments ==
  { <<"q", "u", "a", "n", "d">>,
    <<"o", "&ugrave;">>,
    <<"q", "u", "e", "l", " ", "l", "i", "e", "u">>,
    <<"c", "o", "m", "m", "e", "n", "t">>,
    <<"t", "u", " ", "v", "e", "u", "x">>,
    <<"p", "o", "u", "r", "r", "i", "e", "z", "-", "v", "o", "u", "s">>,
    <<"o", "k">>,
    <<"?">>,
    <<"!">>,
    <<"B", "o", "n", "j", "o", "u", "r">> }

\* a polite request put as a question
PoliteRequest ==
  <<"B", "o", "n", "j", "o", "u", "r", ",", " ", "p", "o", "u", "r", "r", "i", "e", "z", "-", "v", "o", "u", "s",
     " ", "m", "'", "e", "n", "v", "o", "y", "e", "r", " ", "l", "e", " ", "r", "a", "p", "p", "o", "r", "t", " ", "?">>

\* the texts of one to n fragments separated by spaces
RECURSIVE ResponseTexts(_)
ResponseTexts(n) ==
  IF n = 1 THEN ResponseFragments
  ELSE LET shorter == ResponseTexts(n - 1) IN
       shorter \cup { t \o << " " >> \o f : t \in shorter, f \in ResponseFragments }

\* analyzeExpectedResponse is called on the content of the last message of
\* the other party
InitResponse ==
  /\ OrchestratorIdle
  /\ RouteIdle
  /\ cleanInput = <<>>
  /\ cleaned = <<>>
  /\ cleanPc = "idle"
  /\ cleanBody = <<>>
  /\ \E text \in ResponseTexts(MaxResponseWords) \cup { PoliteRequest } :
       messages = << Message(text, "other") >>
  /\ analysis = NoAnalysis
  /\ analyzerPc = "idle"
  /\ context = <<>>
  /\ expectedResponse = "none"
  /\ builderPc = "ready"

\* ConversationAnalyzer.analyzeExpectedResponse(lastOther.content)
AnalyzeExpectedResponse ==
  /\ builderPc = "ready"
  /\ LET others == otherMessages(messages, currentUserId)
         lastOther == others[Len(others)]
     IN expectedResponse' = analyzeExpectedResponse(lastOther.content)
  /\ builderPc' = "done"
  /\ UNCHANGED << context, orchestratorVars, cleanVars, analyzerVars, routeVars >>

NextResponse == AnalyzeExpectedResponse

SpecResponse == InitResponse /\ [][NextResponse]_vars


\* -------------------------------------------------- POST /suggest-multiple

\* the decimal digits, in order
Digits == << "0", "1", "2", "3", "4", "5", "6", "7", "8", "9" >>
IsDigit(c) == \E d \in 1..Len(Digits) : Digits[d] = c
DigitValue(c) == (CHOOSE d \in 1..Len(Digits) : Digits[d] = c) - 1

\* the decimal digits of a natural number
RECURSIVE Decimal(_)
Decimal(n) ==
  IF n < Len(Digits) THEN << Digits[n + 1] >>
  ELSE Decimal(n \div Len(Digits)) \o << Digits[(n % Len(Digits)) + 1] >>

\* String(count), which parseInt applies to its argument
toString(v) ==
  CASE v.type = "string" -> v.chars
    [] v.type = "number" ->
         IF v.value < 0 THEN << "-" >> \o Decimal(0 - v.value) ELSE Decimal(v.value)
    [] v.type = "null" -> << "n", "u", "l", "l" >>
    [] v.type = "boolean" -> IF v.value THEN << "t", "r", "u", "e" >>
                             ELSE << "f", "a", "l", "s", "e" >>
    [] OTHER -> << "u", "n", "d", "e", "f", "i", "n", "e", "d" >>

\* the value of the digits of s from index p on, after the value acc
RECURSIVE ParseDigits(_, _, _)
ParseDigits(s, p, acc) ==
  IF p <= Len(s) /\ IsDigit(s[p])
    THEN ParseDigits(s, p + 1, acc * Len(Digits) + DigitValue(s[p]))
    ELSE acc

\* parseInt(v, 10): leading white space, a sign, then the longest run of
\* digits; NaN (nan |-> TRUE) when there is no digit there
parseInt(v) ==
  LET s == toString(v)
      start == SkipWhitespace(s, 1)
      signed == start <= Len(s) /\ s[start] \in { "-", "+" }
      first == IF signed THEN start + 1 ELSE start
      magnitude == ParseDigits(s, first, 0)
  IN IF first <= Len(s) /\ IsDigit(s[first])
       THEN [nan |-> FALSE,
             value |-> IF signed /\ s[start] = "-" THEN 0 - magnitude ELSE magnitude]
       ELSE [nan |-> TRUE, value |-> 0]

\* const { ..., count = 3 } = req.body;
\* const maxCount = Math.min(Math.max(1, parseInt(count, 10) || 3), 5);
maxCount(requested) ==
  LET c == IF requested = Undefined
             THEN [type |-> "number", value |-> DefaultCount]
             ELSE requested
      parsed == parseInt(c)
      \* NaN and 0 are falsy
      orDefault == IF parsed.nan \/ parsed.value = 0 THEN DefaultCount
                   ELSE parsed.value
      atLeast == IF orDefault >= MinSuggestions THEN orDefault ELSE MinSuggestions
  IN Min(atLeast, MaxSuggestions)

\* the values of count in a request body: the route's validator does not
\* look at count
RequestCounts ==
  { Undefined, [type |-> "null"], [type |-> "boolean", value |-> TRUE] }
    \cup { [type |-> "number", value |-> n] : n \in (0 - 1)..MaxRequestedCount }
    \cup { [type |-> "string", chars |-> chars] :
             chars \in { <<>>, << "0" >>, << "2" >>, << "9" >>, << "1", "2" >>,
                         << "a", "b", "c" >>, << "4", "x" >>, << " ", "5" >>,
                         << "-", "3" >>, << "2", ".", "7" >> } }

\* a POST /suggest-multiple request has passed validateSuggestionRequest
InitRoute ==
  /\ temperature = DefaultTemperature
  /\ isInitialized \in BOOLEAN
  /\ pc = [k \in Invocations |-> "idle"]
  /\ kind = [k \in Invocations |-> "none"]
  /\ currentInput = [k \in Invocations |-> NoInput]
  /\ count = [k \in Invocations |-> 0]
  /\ i = [k \in Invocations |-> 0]
  /\ originalTemp = [k \in Invocations |-> 0]
  /\ suggestions = [k \in Invocations |-> <<>>]
  /\ settled = [k \in Invocations |-> NotSettled]
  /\ requests = [k \in Invocations |-> <<>>]
  /\ attempts = [k \in Invocations |-> <<>>]
  /\ result = [k \in Invocations |-> <<>>]
  /\ resultMode = [k \in Invocations |-> "none"]
  /\ thrown = [k \in Invocations |-> "none"]
  /\ startTemp = [k \in Invocations |-> 0]
  /\ cleanInput = <<>>
  /\ cleaned = <<>>
  /\ cleanPc = "idle"
  /\ cleanBody = <<>>
  /\ AnalyzerIdle
  /\ BuilderIdle
  /\ requestCount \in RequestCounts
  /\ routePc = "received"

\* the handler up to its await: the availability test, maxCount and the call
\* of generateMultipleSuggestions with `currentInput || ''`, an empty text
SuggestMultiple(k) ==
  /\ routePc = "received"
  /\ IF isAvailable
     THEN /\ StartMultiple(k, [present |-> TRUE, text |-> <<>>],
                           maxCount(requestCount))
          /\ routePc' = "called"
     ELSE /\ routePc' = "failed"
          /\ UNCHANGED << orchestratorVars, cleanVars, analyzerVars, builderVars >>
  /\ UNCHANGED requestCount

\* the handler resumes with the suggestions: res.json
Respond(k) ==
  /\ routePc = "called"
  /\ pc[k] = "returned"
  /\ routePc' = "responded"
  /\ UNCHANGED << requestCount, orchestratorVars, cleanVars, analyzerVars,
                  builderVars >>

NextRoute ==
  \E k \in Invocations :
    \/ SuggestMultiple(k)
    \/ ProviderResolve(k, <<"O", "k">>)
    \/ ProviderReject(k, "ConnectionError")
    \/ ResumePush(k)
    \/ ResumeCatch(k)
    \/ Respond(k)

SpecRoute == InitRoute /\ [][NextRoute]_vars


\* ------------------------------------------------------- long conversations

\* transcripts of more than TruncationThreshold messages: old messages of one
\* kind (formal words, informal words, a relationship word, none of them),
\* then RetainedMessages messages of one kind
LongTranscripts ==
  { Repeat(Message(old, s), k) \o Repeat(Message(later, t), RetainedMessages) :
      old \in { <<"B", "o", "n", "j", "o", "u", "r", " ", "m", "e", "r", "c", "i">>,
                <<"b", "o", "n", "j", "o", "u", "r", " ", "l", "o", "l">>,
                <<"c", "h", "e", "f">>,
                <<"o", "u", "i">> },
      later \in { <<"o", "k">>, <<"m", "a", "m", "a", "n">> },
      s \in { currentUserId, "other" }, t \in { currentUserId, "other" },
      k \in (TruncationThreshold - RetainedMessages + 1)..MaxOldMessages }

\* analyze is called on a long transcript
InitLong ==
  /\ OrchestratorIdle
  /\ RouteIdle
  /\ cleanInput = <<>>
  /\ cleaned = <<>>
  /\ cleanPc = "idle"
  /\ cleanBody = <<>>
  /\ messages \in LongTranscripts
  /\ analysis = NoAnalysis
  /\ analyzerPc = "ready"
  /\ BuilderIdle

SpecLong == InitLong /\ [][NextAnalyze]_vars


\* ------------------------------------------------------ tone and formality

\* contents with formal words, informal words (once and repeated), and
\* informal words inside other words
FormalityContents ==
  { <<"m", "e", "r", "c", "i">>,
    <<"l", "o", "l">>,
    <<"l", "o", "l", " ", "l", "o", "l">>,
    <<"B", "o", "n", "j", "o", "u", "r", ",", " ", "m", "e", "r", "c",
      "i">>,
    <<"S", "a", "l", "u", "t", "a", "t", "i", "o", "n", "s", ",", " ",
      "p", "a", "s", " ", "d", "'", "a", "l", "c", "o", "o", "l">>,
    <<"o", "k">> }

\* analyze is called on a transcript of these contents
InitFormality ==
  /\ OrchestratorIdle
  /\ RouteIdle
  /\ cleanInput = <<>>
  /\ cleaned = <<>>
  /\ cleanPc = "idle"
  /\ cleanBody = <<>>
  /\ messages \in Transcripts(FormalityContents, { "other" }, MaxFormalityMessages)
  /\ analysis = NoAnalysis
  /\ analyzerPc = "ready"
  /\ BuilderIdle

SpecFormality == InitFormality /\ [][NextAnalyze]_vars


\* ------------------------------------------------------------------ claims

IsMultiple(k) == kind[k] = "multiple"
IsSingle(k) == kind[k] = "single"
Returned(k) == pc[k] = "returned"

\* the suggestion a successful attempt yields for the raw provider text
Sanitized(raw) == cleanSuggestion(Trim(raw))

\* the suggestions of the successful attempts of k, in attempt order
RECURSIVE SuccessesOf(_)
SuccessesOf(log) ==
  IF log = <<>> THEN <<>>
  ELSE IF log[1].ok THEN <<Sanitized(log[1].raw)>> \o SuccessesOf(Tail(log))
       ELSE SuccessesOf(Tail(log))
Successes(k) == SuccessesOf(attempts[k])

AllSucceeded(k) == \A a \in 1..Len(attempts[k]) : attempts[k][a].ok
AllFailed(k) == \A a \in 1..Len(attempts[k]) : ~attempts[k][a].ok

\* index of the first occurrence of x in s
FirstIndex(s, x) == CHOOSE a \in 1..Len(s) : s[a] = x /\ \A b \in 1..(a - 1) : s[b] # x

\* C1: with no other invocation in flight, when generateMultipleSuggestions
\* returns, config.ai.temperature has the value it had when the call started,
\* whatever the attempts did.
C1_TemperatureRestoredOnReturn ==
  \A k \in Invocations :
    (IsMultiple(k) /\ Returned(k)) => temperature = startTemp[k]

\* C2: the provider request of a plain generateSuggestion carries the
\* configured base temperature, whatever other invocation is suspended at its
\* await (no attempt of any invocation has failed).
C2_PlainRequestCarriesBaseTemperature ==
  \A k \in Invocations :
    (/\ IsSingle(k)
     /\ requests[k] # <<>>
     /\ \A j \in Invocations : AllSucceeded(j))
    => requests[k][1].temperature = DefaultTemperature

\* C3: after interleaved generateMultipleSuggestions invocations whose
\* attempts all succeeded have all returned, config.ai.temperature has its
\* initial value.
C3_InterleavedMultiplesRestoreTemperature ==
  (\A k \in Invocations : IsMultiple(k) /\ Returned(k) /\ AllSucceeded(k))
  => temperature = DefaultTemperature

\* C4: the list generateMultipleSuggestions returns never holds the same text
\* twice.
C4_NoTwoIdenticalSuggestions ==
  \A k \in Invocations :
    (IsMultiple(k) /\ Returned(k)) =>
      \A a, b \in 1..Len(result[k]) : a # b => result[k][a] # result[k][b]

\* the provider returned the same text for two attempts of a returned call
C4_Witness ==
  \E k \in Invocations :
    /\ IsMultiple(k) /\ Returned(k)
    /\ \E a, b \in 1..Len(attempts[k]) :
         /\ a < b
         /\ attempts[k][a].ok /\ attempts[k][b].ok
         /\ attempts[k][a].raw = attempts[k][b].raw
    /\ result[k] # <<>>

\* C5: generateMultipleSuggestions never raises; after a failing attempt the
\* remaining attempts still run, and when every attempt failed the call
\* returns the empty list.
C5_MultipleNeverRaises ==
  \A k \in Invocations :
    IsMultiple(k) =>
      /\ pc[k] # "raised"
      /\ thrown[k] = "none"
      /\ Returned(k) =>
           /\ Len(attempts[k]) = count[k]
           /\ AllFailed(k) => result[k] = <<>>

\* a call of two or more attempts returned after every attempt failed
C5_Witness ==
  \E k \in Invocations :
    /\ IsMultiple(k) /\ Returned(k)
    /\ count[k] >= 2
    /\ AllFailed(k)
    /\ result[k] = <<>>

\* C6: the returned list is the sanitized suggestions of the successful
\* attempts, in attempt order, each distinct text once at the place of its
\* first occurrence; its length is at most count.
C6_ResultIsDistinctSuccessesInOrder ==
  \A k \in Invocations :
    (IsMultiple(k) /\ Returned(k)) =>
      LET s == Successes(k)
          r == result[k]
      IN  /\ { r[a] : a \in 1..Len(r) } = { s[b] : b \in 1..Len(s) }
          /\ \A a, b \in 1..Len(r) :
               a < b => FirstIndex(s, r[a]) < FirstIndex(s, r[b])
          /\ Len(r) <= count[k]

\* three attempts succeeded, the first and the third with different raw texts
\* that sanitize to the same suggestion, the second with another one
C6_Witness ==
  \E k \in Invocations :
    /\ IsMultiple(k) /\ Returned(k)
    /\ Len(attempts[k]) = 3 /\ AllSucceeded(k)
    /\ attempts[k][1].raw # attempts[k][3].raw
    /\ Sanitized(attempts[k][1].raw) = Sanitized(attempts[k][3].raw)
    /\ Sanitized(attempts[k][1].raw) # Sanitized(attempts[k][2].raw)
    /\ Len(result[k]) = 2

\* C7: the provider request of attempt i carries min(1, T0 + 0.1*i), T0 the
\* temperature at the start of the call, whatever the earlier attempts did.
C7_AttemptTemperatureIsFixedStepFromStart ==
  \A k \in Invocations :
    IsMultiple(k) =>
      \A j \in 1..Len(requests[k]) :
        requests[k][j].temperature =
          Min(MaxTemperature, startTemp[k] + TemperatureStep * requests[k][j].attempt)

\* the draft has a character that is not white space
HasVisibleText(d) ==
  d.present /\ \E j \in 1..Len(d.text) : ~IsWhitespace(d.text[j])

\* C8: the mode is improve exactly when the draft is present and not empty
\* after trimming, suggest otherwise; both prompts of the request are built
\* for that mode and the result reports it.
C8_ModeFollowsTrimmedDraft ==
  \A k \in Invocations :
    /\ \A j \in 1..Len(requests[k]) :
         /\ requests[k][j].system = "ImproveMission" <=> HasVisibleText(currentInput[k])
         /\ requests[k][j].system = "SuggestMission" <=> ~HasVisibleText(currentInput[k])
         /\ requests[k][j].user = "ImproveUserPrompt" <=> HasVisibleText(currentInput[k])
         /\ requests[k][j].user = "SuggestUserPrompt" <=> ~HasVisibleText(currentInput[k])
    /\ (IsSingle(k) /\ Returned(k)) =>
         resultMode[k] = IF HasVisibleText(currentInput[k]) THEN "improve" ELSE "suggest"

\* a generateSuggestion with a draft of white space only returned in mode
\* suggest
C8_Witness ==
  \E k \in Invocations :
    /\ IsSingle(k) /\ Returned(k)
    /\ currentInput[k].present /\ currentInput[k].text # <<>>
    /\ resultMode[k] = "suggest"
    /\ requests[k][1].system = "SuggestMission"

\* the generateSuggestion calls k has made so far
CallsMade(k) ==
  IF pc[k] = "idle" THEN 0
  ELSE IF IsSingle(k) THEN 1
  ELSE IF Returned(k) THEN count[k]
  ELSE i[k] + 1

\* C9: each generateSuggestion call issues no provider request when the
\* provider is unavailable and exactly one otherwise; when the request errors
\* that error reaches the caller, with no retry and no result.
C9_OneRequestPerCallErrorPropagated ==
  \A k \in Invocations :
    /\ Len(requests[k]) = IF isAvailable THEN CallsMade(k) ELSE 0
    /\ \A j \in 1..Len(requests[k]) : requests[k][j].attempt = j - 1
    /\ ~isAvailable =>
         \A a \in 1..Len(attempts[k]) :
           ~attempts[k][a].ok /\ attempts[k][a].error = ServiceUnavailable
    /\ (IsSingle(k) /\ attempts[k] # <<>> /\ ~attempts[k][1].ok) =>
         /\ pc[k] = "raised"
         /\ thrown[k] = attempts[k][1].error
         /\ result[k] = <<>>
         /\ resultMode[k] = "none"
    /\ (IsMultiple(k) /\ pc[k] = "awaitSuggestion"
        /\ ~attempts[k][Len(attempts[k])].ok) =>
         /\ ~settled[k].ok
         /\ settled[k].error = attempts[k][Len(attempts[k])].error

\* a generateSuggestion whose one provider request errored raised that error
C9_Witness ==
  \E k \in Invocations :
    /\ IsSingle(k)
    /\ pc[k] = "raised"
    /\ thrown[k] \in ProviderErrors
    /\ Len(requests[k]) = 1

\* s begins with the characters of p, whatever their case
BeginsWith(s, p) ==
  /\ Len(s) >= Len(p)
  /\ \A j \in 1..Len(p) : Lower(s[j]) = Lower(p[j])

\* C10: what cleanSuggestion returns has no quotation mark as first or last
\* character and does not begin with a lead-in phrase and its colon.
C10_CleanedHasNoQuoteNoLeadIn ==
  cleanPc = "done" =>
    /\ cleaned # <<>> => ~IsQuote(cleaned[1]) /\ ~IsQuote(cleaned[Len(cleaned)])
    /\ \A p \in 1..Len(prefixesToRemove) :
         ~BeginsWith(cleaned, Append(prefixesToRemove[p], ":"))

\* C11: cleanSuggestion of a plain body wrapped in one pair of quotation marks
\* behind one lead-in phrase returns exactly the body.
C11_WrappedBodyIsRecovered ==
  (cleanPc = "done" /\ cleanInput # <<>> /\ IsPlainBody(cleanBody)) =>
    cleaned = cleanBody

\* the body recovered from its wrapping is not empty and holds a quotation
\* mark inside
C11_Witness ==
  /\ cleanPc = "done"
  /\ IsPlainBody(cleanBody)
  /\ Len(cleanBody) > 3
  /\ \E j \in 2..(Len(cleanBody) - 1) : IsQuote(cleanBody[j])
  /\ IsQuote(cleanInput[1])
  /\ cleaned = cleanBody

\* the returned context and its argument
Analyzed == analyzerPc = "done"

\* C12: for an empty (or missing) message list analyze returns the default
\* context: no message counted, the "Nouvelle conversation" summary, neutral
\* tone and emotional tone, flow "debut", urgency "normal", formality 0.5.
C12_EmptyListGivesDefaultContext ==
  (Analyzed /\ messages = <<>>) =>
    /\ analysis.messageCount = 0
    /\ analysis.conversationSummary = << "Nouvelle conversation" >>
    /\ analysis.tone = "neutre"
    /\ analysis.emotionalTone = "neutre"
    /\ analysis.conversationFlow = "debut"
    /\ analysis.urgency = "normal"
    /\ 2 * analysis.formality.num = analysis.formality.den

\* analyze has returned for the empty list
C12_Witness == Analyzed /\ messages = <<>> /\ analysis.messageCount = 0

\* the topic tags of the dictionary, in declaration order
DictionaryTopics == [ k \in 1..Len(TOPIC_KEYWORDS) |-> TOPIC_KEYWORDS[k].topic ]

\* the elements of a list
Range(list) == { list[k] : k \in 1..Len(list) }

\* C13: in every returned context, whatever the message list (the empty one
\* included), topics is not empty: it is the matched tags in dictionary
\* order, or the "discussion generale" sentinel alone.
C13_TopicsNeverEmpty ==
  Analyzed =>
    /\ analysis.topics # <<>>
    /\ \/ analysis.topics = << "discussion generale" >>
       \/ /\ Range(analysis.topics) \subseteq Range(DictionaryTopics)
          /\ analysis.topics =
               SelectSeq(DictionaryTopics,
                         LAMBDA t : t \in Range(analysis.topics))

\* C14: in every returned context, whatever the message list (the empty one
\* included), relationship is one of the five values.
C14_RelationshipIsOneOfFive ==
  Analyzed =>
    analysis.relationship
      \in { "professionnel", "famille", "collegue", "couple", "ami" }

\* f: the word-boundary matches of the formal indicators in the transcript
formalMatches == SumWordMatches(JoinLowered(messages), FORMAL_INDICATORS)

\* i: the word-boundary matches of the informal indicators in the transcript
informalMatches == SumWordMatches(JoinLowered(messages), INFORMAL_INDICATORS)

\* C15: with f formal and i informal matches, formalScore = f and
\* informalScore = 1.5 * i (both held in halves); tone is formal iff
\* formalScore > 2 * informalScore, otherwise informal iff informalScore >
\* formalScore, otherwise neutral: exactly one of the three.
C15_ToneFollowsWeightedScores ==
  (Analyzed /\ messages # <<>>) =>
    LET nFormal == formalMatches
        nInformal == informalMatches
        formal == 2 * nFormal > 2 * (3 * nInformal)
        informal == ~formal /\ 3 * nInformal > 2 * nFormal
    IN /\ formalScore(messages) = 2 * nFormal
       /\ informalScore(messages) = 3 * nInformal
       /\ analysis.tone \in { "formel", "informel", "neutre" }
       /\ analysis.tone = "formel" <=> formal
       /\ analysis.tone = "informel" <=> informal
       /\ analysis.tone = "neutre" <=> (~formal /\ ~informal)

\* a transcript with both kinds of indicator, just short of the formal
\* margin (f = 3 * i), is neutral
C15_Witness ==
  /\ Analyzed
  /\ informalMatches > 0
  /\ formalMatches = 3 * informalMatches
  /\ analysis.tone = "neutre"

\* C16 as stated: whenever the raw counts of formal and informal indicator
\* words are equal, tone is informal.
C16_EqualCountsResolveInformal ==
  (Analyzed /\ formalMatches = informalMatches) => analysis.tone = "informel"

\* C16 amended: whenever the raw counts of formal and informal indicator
\* words are equal and not zero, tone is informal; when both are zero, tone
\* is neutral.
C16_EqualNonZeroCountsResolveInformal ==
  Analyzed =>
    LET nFormal == formalMatches IN
    nFormal = informalMatches =>
      /\ nFormal > 0 => analysis.tone = "informel"
      /\ nFormal = 0 => analysis.tone = "neutre"

\* one formal and one informal indicator word: informal
C16_Witness ==
  /\ Analyzed
  /\ formalMatches = informalMatches
  /\ formalMatches > 0
  /\ analysis.tone = "informel"

C18_FirstMatchingPatternWins ==
  (Analyzed /\ messages # <<>> /\ analysis.tone # "formel") =>
    LET content == JoinLowered(messages)
        role == TestPattern(content, professionalPattern)
        family == TestPattern(content, familyPattern)
        colleague == TestPattern(content, colleaguePattern)
        couple == TestPattern(content, couplePattern)
    IN analysis.relationship =
         IF role THEN "professionnel"
         ELSE IF family THEN "famille"
         ELSE IF colleague THEN "collegue"
         ELSE IF couple THEN "couple"
         ELSE "ami"

\* a transcript without formal tone that matches the family and the colleague
\* patterns is a family one
C18_Witness ==
  /\ Analyzed
  /\ analysis.tone # "formel"
  /\ TestPattern(JoinLowered(messages), familyPattern)
  /\ TestPattern(JoinLowered(messages), colleaguePattern)
  /\ analysis.relationship = "famille"

\* the positive score as C19 states it: every occurrence of a positive word,
\* two per positive emoji, one per exclamation mark up to three
claimedPositiveScore ==
  LET allContent == JoinContents(messages) IN
  SumMatches(toLowerCase(allContent), POSITIVE_INDICATORS)
  + 2 * SumMatches(allContent, POSITIVE_EMOJIS)
  + Min(CountMatches(allContent, << "!" >>), 3)

\* the negative score as C19 states it: every occurrence of a negative word,
\* two per negative emoji
claimedNegativeScore ==
  LET allContent == JoinContents(messages) IN
  SumMatches(toLowerCase(allContent), NEGATIVE_INDICATORS)
  + 2 * SumMatches(allContent, NEGATIVE_EMOJIS)

\* C19: the emotional tone is positive iff the positive score, in which a
\* word repeated k times counts k, exceeds 1.5 times the negative score
\* counted the same way; otherwise negative iff the negative score exceeds
\* the positive one; otherwise neutral.
C19_EmotionalToneCountsEveryOccurrence ==
  (Analyzed /\ messages # <<>>) =>
    analysis.emotionalTone =
      IF 2 * claimedPositiveScore > 3 * claimedNegativeScore THEN "positif"
      ELSE IF claimedNegativeScore > claimedPositiveScore THEN "negatif"
      ELSE "neutre"

\* the indices of the last five messages
RecentIndices == { k \in 1..Len(messages) : k > Len(messages) - 5 }

\* how many of the last five messages contain a question mark
RecentQuestions ==
  Cardinality({ k \in RecentIndices :
                  \E p \in 1..Len(messages[k].content) :
                    messages[k].content[p] = "?" })

\* how many of the last five messages the current user sent
RecentMine ==
  Cardinality({ k \in RecentIndices : messages[k].senderId = currentUserId })

\* C20: "debut" for fewer than two messages; otherwise "interrogatif" if at
\* least two of the last five messages contain "?", else "actif" if the
\* current user sent at least three of them, else "prolonge" if the
\* transcript has more than twenty messages, else "fluide".
C20_FlowBranchesInOrder ==
  Analyzed =>
    analysis.conversationFlow =
      IF Len(messages) < 2 THEN "debut"
      ELSE IF RecentQuestions >= 2 THEN "interrogatif"
      ELSE IF RecentMine >= 3 THEN "actif"
      ELSE IF Len(messages) > 20 THEN "prolonge"
      ELSE "fluide"

\* a transcript of more than twenty messages whose last five hold two
\* questions and three messages of the current user, and whose older
\* messages are all questions, is "interrogatif"
C20_Witness ==
  /\ Analyzed
  /\ Len(messages) > 20
  /\ RecentQuestions = 2
  /\ RecentMine >= 3
  /\ \A k \in 1..(Len(messages) - 5) :
       messages[k].content = <<"o", "k", " ", "?">>
  /\ analysis.conversationFlow = "interrogatif"

\* the content of the most recent message that the current user did not send
\* (the empty text when there is none)
LastOtherContent ==
  LET others == { k \in 1..Len(messages) :
                    messages[k].senderId # currentUserId }
  IN IF others = {} THEN <<>>
     ELSE messages[CHOOSE k \in others : \A j \in others : j <= k].content

\* a text ends with the character c
EndsWith(s, c) == Len(s) > 0 /\ s[Len(s)] = c

\* C21: the summary gets the "Question en attente de reponse" clause exactly
\* when the most recent message of the other party ends in "?", and the
\* "Message enthousiaste recu" clause exactly when it ends in "!"; without
\* such a message no clause is added.
C21_ClauseFollowsEndOfLastOtherMessage ==
  Analyzed =>
    /\ ". Question en attente de reponse" \in Range(analysis.conversationSummary)
         <=> EndsWith(LastOtherContent, "?")
    /\ ". Message enthousiaste recu" \in Range(analysis.conversationSummary)
         <=> EndsWith(LastOtherContent, "!")

\* the lines of the context of a given kind
LinesOfKind(lineKind) ==
  SelectSeq(context, LAMBDA line : line.kind = lineKind)

\* C22: for n >= 9 messages the context renders exactly the last six
\* messages, in order, and one summary line whose two counts add up to n - 6
\* and count the first n - 6 messages only; for 1 <= n <= 8 it renders all n
\* messages and no summary line.
C22_LastSixVerbatimAndCountsOfTheRest ==
  (builderPc = "done" /\ Len(messages) >= 1) =>
    LET n == Len(messages)
        rendered == LinesOfKind("message")
        summaries == LinesOfKind("summary")
        first == IF n >= 9 THEN n - 6 ELSE 0
    IN /\ Len(rendered) = n - first
       /\ \A k \in 1..Len(rendered) :
            /\ rendered[k].content = messages[first + k].content
            /\ rendered[k].index = k
            /\ rendered[k].prefix =
                 IF messages[first + k].senderId = currentUserId
                   THEN << "[MOI] ", currentUserName >>
                 ELSE << messages[first + k].senderName >>
       /\ Len(summaries) = IF n >= 9 THEN 1 ELSE 0
       /\ n >= 9 =>
            /\ summaries[1].myCount =
                 Cardinality({ k \in 1..(n - 6) :
                                 messages[k].senderId = currentUserId })
            /\ summaries[1].myCount + summaries[1].otherCount = n - 6

\* a transcript of nine messages of both parties is rendered as a summary of
\* three messages and the last six
C22_Witness ==
  /\ builderPc = "done"
  /\ Len(messages) = 9
  /\ Len(LinesOfKind("message")) = 6
  /\ LinesOfKind("summary")[1].myCount > 0
  /\ LinesOfKind("summary")[1].otherCount > 0

\* the message that analyzeExpectedResponse was called on
ResponseMessage == messages[Len(messages)].content

\* C23: every message gets a type, the first that applies: with a "?" one of
\* "temporelle", "lieu", "explicative", "proposition" (tested in that order)
\* or "ouverte", even when it ends with "!" or holds an affirmation token;
\* otherwise "exclamation" when it ends with "!"; otherwise "validation"
\* when it holds an affirmation token; otherwise "affirmation".
C23_FirstMatchingResponseTypeWins ==
  builderPc = "done" =>
    LET lower == toLowerCase(ResponseMessage)
        question == \E p \in 1..Len(ResponseMessage) : ResponseMessage[p] = "?"
        exclaims == ResponseMessage[Len(ResponseMessage)] = "!"
    IN /\ question =>
            expectedResponse =
              IF TestPattern(lower, temporalPattern) THEN "temporelle"
              ELSE IF TestPattern(lower, locationPattern) THEN "lieu"
              ELSE IF TestPattern(lower, explanatoryPattern) THEN "explicative"
              ELSE IF TestPattern(lower, proposalPattern) THEN "proposition"
              ELSE "ouverte"
       /\ (~question /\ exclaims) => expectedResponse = "exclamation"
       /\ (~question /\ ~exclaims) =>
            expectedResponse =
              IF TestPattern(lower, validationPattern) THEN "validation"
              ELSE "affirmation"

\* a question that holds an affirmation token and ends with "!" gets a
\* question type
C23_Witness ==
  /\ builderPc = "done"
  /\ \E p \in 1..Len(ResponseMessage) : ResponseMessage[p] = "?"
  /\ ResponseMessage[Len(ResponseMessage)] = "!"
  /\ TestPattern(toLowerCase(ResponseMessage), validationPattern)
  /\ expectedResponse = "ouverte"

\* C24: a question that contains "pourriez-vous" and none of the other
\* interrogative triggers gets the type "explicative" or "proposition",
\* never "ouverte".
C24_PolitePhraseIsNeverOpen ==
  LET lower == toLowerCase(ResponseMessage) IN
  ( /\ builderPc = "done"
    /\ includes(ResponseMessage, << "?" >>)
    /\ includes(lower, <<"p", "o", "u", "r", "r", "i", "e", "z", "-",
                         "v", "o", "u", "s">>)
    /\ ~TestPattern(lower, temporalPattern)
    /\ ~TestPattern(lower, locationPattern)
    /\ ~TestPattern(lower, explanatoryPattern)
    /\ ~TestPattern(lower, proposalPattern) )
  => expectedResponse \in { "explicative", "proposition" }


\* the invocation that serves the request
Served(k) == routePc \in { "called", "responded" } /\ kind[k] = "multiple"

\* the limit of v into [lo, hi]
Clamp(v, lo, hi) == IF v < lo THEN lo ELSE IF v > hi THEN hi ELSE v

\* C25: generateMultipleSuggestions runs with the requested count clamped
\* into [1, 5] when the count parses as an integer, and with 3 when it is
\* absent or not a number; the attempt count is always between 1 and 5.
C25_CountClampedOrDefault ==
  \A k \in Invocations :
    Served(k) =>
      /\ count[k] \in MinSuggestions..MaxSuggestions
      /\ count[k] =
           IF requestCount = Undefined \/ parseInt(requestCount).nan
             THEN DefaultCount
             ELSE Clamp(parseInt(requestCount).value, MinSuggestions, MaxSuggestions)
      /\ pc[k] = "returned" => Len(attempts[k]) = count[k]


\* what analyze returns for the last RetainedMessages messages alone
AnalysisOfRetained ==
  analyze(LastMessages(messages, RetainedMessages), currentUserId)

\* C26: when more than 30 messages are supplied, the analysis considers only
\* the 25 most recent ones: the fields computed from the contents (tone,
\* relationship, topics, emotional tone, urgency, formality) are those of the
\* last 25 messages alone.
C26_OnlyRecentMessagesAnalysed ==
  (Analyzed /\ Len(messages) > TruncationThreshold) =>
    /\ analysis.tone = AnalysisOfRetained.tone
    /\ analysis.relationship = AnalysisOfRetained.relationship
    /\ analysis.topics = AnalysisOfRetained.topics
    /\ analysis.emotionalTone = AnalysisOfRetained.emotionalTone
    /\ analysis.urgency = AnalysisOfRetained.urgency
    /\ analysis.formality = AnalysisOfRetained.formality


\* the provider requests of invocation k that have not been answered: every
\* attempt outcome other than the availability error answers one request
RequestsInFlight(k) ==
  Len(requests[k])
    - Cardinality({ a \in 1..Len(attempts[k]) :
                      attempts[k][a].error # ServiceUnavailable })

\* C27: within one generateMultipleSuggestions invocation the attempts are
\* sequential: a request is in flight only while the invocation awaits the
\* provider, at most one at a time, and the request in flight is that of the
\* attempt after those already completed.
C27_AtMostOneRequestInFlight ==
  \A k \in Invocations :
    kind[k] = "multiple" =>
      /\ RequestsInFlight(k) \in { 0, 1 }
      /\ RequestsInFlight(k) = 1 <=> pc[k] = "awaitCreate"
      /\ \A n \in 1..Len(requests[k]) : requests[k][n].attempt = n - 1
      /\ pc[k] = "awaitCreate" => Len(attempts[k]) = Len(requests[k]) - 1

\* the second request of an invocation is in flight, the first one answered
C27_Witness ==
  \E k \in Invocations :
    /\ kind[k] = "multiple"
    /\ pc[k] = "awaitCreate"
    /\ Len(requests[k]) = 2
    /\ Len(attempts[k]) = 1


\* C28: cleanSuggestion is idempotent: cleaning a cleaned text changes
\* nothing, whatever quotation marks and lead-in phrases the raw text holds.
C28_CleanSuggestionIdempotent ==
  cleanPc = "done" => cleanSuggestion(cleaned) = cleaned


\* C29: tone and formality do not contradict each other: with tone "formel"
\* the formality score is at least 0.5, with tone "informel" at most 0.5.
C29_ToneAgreesWithFormality ==
  Analyzed =>
    /\ analysis.tone = "formel" => 2 * analysis.formality.num >= analysis.formality.den
    /\ analysis.tone = "informel" => 2 * analysis.formality.num <= analysis.formality.den

====
